---- MODULE Spec2Model ----
(***************************************************************************)
(* A model of the pymochow SDK: the HTTP transport's retry loop            *)
(* (http/http_client.py), the response handlers (http/handler.py), the     *)
(* signer (auth/bce_v1_signer.py) and the Configuration objects and their  *)
(* merge on per-call override (configuration.py, client/mochow_client.py,  *)
(* model/database.py, model/table.py).                                     *)
(*                                                                         *)
(* Python values are modelled as follows.  An optional value is None (the  *)
(* empty tuple) or Some(x) (a one-element tuple).  A byte string built by  *)
(* %-formatting is the sequence of its segments.  A header value carries   *)
(* its Python type: Bytes(s), Str(s) or Dict(d).                           *)
(***************************************************************************)
EXTENDS Integers, Sequences, FiniteSets, TLC

VARIABLES
    \* ---- one HTTPClient.send_request call (http_client.py) ----
    pc,                 \* position in send_request/_send_request
    http_method,        \* argument http_method
    config,             \* argument config: [credentials, retry_policy]
    headers,            \* the local dict `headers`
    retries_attempted,  \* the local counter
    errors,             \* the local list of formatted tracebacks
    e,                  \* the exception bound by `except Exception as e`
    http_response,      \* what session.post/delete returned in the current attempt
                        \* (None while it has returned nothing)
    outcome,            \* what reached the caller: a response or an exception
    \* ---- observations of that call (history) ----
    dispatches,         \* number of session.post/delete calls so far
    sleeps,             \* number of time.sleep calls so far
    decisions,          \* the should_retry answers so far, in order
    sent,               \* the headers argument of the latest dispatch
    parsed,             \* statuses of the responses body_parser was applied to
    \* ---- Configuration objects and the handles that hold them ----
    heap,               \* the Configuration objects, by reference
    client,             \* MochowClient._config (a reference), None before construction
    clientArg,          \* the caller's Configuration given to MochowClient(config)
    db,                 \* Database._config of the caller's Database handle
    table,              \* Table._config of the caller's Table handle
    pending,            \* a merge in progress: copy made, merge_non_none_values not yet run
    used,               \* the latest call: the config given to send_request, the
                        \* handle's config it started from, the caller's override
    \* ---- calls of the signer (auth/bce_v1_signer.py) ----
    signLast,           \* the latest sign call: its arguments, its return value and
                        \* the caller's headers and params once it has returned
    signPrev,            \* the sign call before it
    \* ---- renderings of search requests (model/table.py) ----
    searchRequest,      \* the latest SearchRequest object to_dict was called on
    searchBody,          \* the dict its to_dict returned
    \* ---- one DefaultPipeline call (ai/pipeline/default_pipeline.py) ----
    ppc,                \* position in vector_search / hybrid_search / ingest_doc
    pargs,              \* the arguments of the call
    calls,              \* the calls made on the collaborators (embedder, document
                        \* processor, tables), in order, each with whether it raised
    rows,               \* the local list `rows` of ingest_doc
    batch_start,        \* the loop variable `i` of ingest_doc
    stored,             \* the rows the meta table and the chunk table hold
    pout,                \* what reached the caller: a result or an exception
    \* ---- create_table / describe_table / describe_index (model/database.py, model/table.py) ----
    created,            \* the Table object create_table returned
    echoed,             \* the `table` of the server's answer to describe_table
    described,          \* what describe_table did: the Table it returned, or the
                        \* exception it raised
    reported,           \* the `index` of the server's answer to describe_index
    index_described,     \* what describe_index did: the index it returned, or the
                        \* exception it raised
    \* ---- the requests of the Database and Table operations (model/database.py, model/table.py) ----
    op_called,          \* the operation called on the Database or the Table
    op_args,            \* the keyword arguments it was called with
    op_sent,             \* what it did: the request it handed to send_request, or
                        \* the exception it raised before sending
    \* ---- the body of one _send_request call (http/http_client.py) ----
    fp_pc,              \* position in _send_request
    fp,                 \* the body object: its kind and its read position
    offset,             \* the local `offset`
    fp_retries,         \* the local retries_attempted
    fp_policy,          \* config.retry_policy
    read_from,           \* the body's position at each dispatch so far, in order
    client_conn,        \* MochowClient._conn: Some(the HTTPClient) or None
    session,            \* HTTPClient.session: "open" or "closed"
    database_handle,    \* a Database the caller obtained: None or Some([conn |-> ...])
    table_handle,       \* a Table the caller obtained: None or Some([conn |-> ...])
    closed,             \* MochowClient.close() has returned
    last_call,           \* the last operation called: on, op, after_close, result
    server_table,       \* the table as the server keeps it after create_table, None before
    creating_left,      \* describe answers still to report CREATING
    poll_pc,            \* caller's position: "idle", "loop", "done", "raised"
    poll_requests,      \* desc requests sent by the loop
    poll_table,          \* what the last describe_table call returned or raised
    hub,                \* the LocalDocumentHub: None or Some([_root_path |-> ...])
    filesystem,         \* [dirs, files]: the directories and files that exist
    added,              \* doc_names added and not removed since
    hub_call,            \* the last call on the hub: op, doc_name, result
    split_input,        \* None, or the document and the splitter settings chosen
    split_output,       \* what LangchainDocSplitter.split returned or raised
    process_output      \* what QianfanDocProcessor.process_doc returned or raised

httpVars == <<pc, http_method, config, headers, retries_attempted, errors, e,
              http_response, outcome, dispatches, sleeps, decisions,
              sent, parsed>>

cfgVars == <<heap, client, clientArg, db, table, pending, used>>

signVars == <<signLast, signPrev>>

searchVars == <<searchRequest, searchBody>>

pipeVars == <<ppc, pargs, calls, rows, batch_start, stored, pout>>

tblVars == <<created, echoed, described, reported, index_described>>

opsVars == <<op_called, op_args, op_sent>>

fpVars == <<fp_pc, fp, offset, fp_retries, fp_policy, read_from>>

closeVars == <<client_conn, session, database_handle, table_handle, closed, last_call>>

pollVars == <<server_table, creating_left, poll_pc, poll_requests, poll_table>>

hubVars == <<hub, filesystem, added, hub_call>>

splitVars == <<split_input, split_output, process_output>>

nonHttpVars == <<cfgVars, signVars, searchVars, pipeVars, tblVars, opsVars, fpVars, closeVars, pollVars, hubVars, splitVars>>
nonCfgVars == <<httpVars, signVars, searchVars, pipeVars, tblVars, opsVars, fpVars, closeVars, pollVars, hubVars, splitVars>>
nonSignVars == <<httpVars, cfgVars, searchVars, pipeVars, tblVars, opsVars, fpVars, closeVars, pollVars, hubVars, splitVars>>
nonSearchVars == <<httpVars, cfgVars, signVars, pipeVars, tblVars, opsVars, fpVars, closeVars, pollVars, hubVars, splitVars>>
nonPipeVars == <<httpVars, cfgVars, signVars, searchVars, tblVars, opsVars, fpVars, closeVars, pollVars, hubVars, splitVars>>
nonTblVars == <<httpVars, cfgVars, signVars, searchVars, pipeVars, opsVars, fpVars, closeVars, pollVars, hubVars, splitVars>>
nonOpsVars == <<httpVars, cfgVars, signVars, searchVars, pipeVars, tblVars, fpVars, closeVars, pollVars, hubVars, splitVars>>
nonFpVars == <<httpVars, cfgVars, signVars, searchVars, pipeVars, tblVars, opsVars, closeVars, pollVars, hubVars, splitVars>>
nonCloseVars == <<httpVars, cfgVars, signVars, searchVars, pipeVars, tblVars, opsVars, fpVars, pollVars, hubVars, splitVars>>
nonPollVars == <<httpVars, cfgVars, signVars, searchVars, pipeVars, tblVars, opsVars, fpVars, closeVars, hubVars, splitVars>>
nonHubVars == <<httpVars, cfgVars, signVars, searchVars, pipeVars, tblVars, opsVars, fpVars, closeVars, pollVars, splitVars>>
nonSplitVars == <<httpVars, cfgVars, signVars, searchVars, pipeVars, tblVars, opsVars, fpVars, closeVars, pollVars, hubVars>>

vars == <<httpVars, cfgVars, signVars, searchVars, pipeVars, tblVars, opsVars, fpVars, closeVars, pollVars, hubVars, splitVars>>

None == <<>>
Some(x) == <<x>>

Bytes(s) == [type |-> "bytes", v |-> s]
Str(s) == [type |-> "str", v |-> s]
Dict(d) == [type |-> "dict", v |-> d]

(***************************************************************************)
(* Bounds of the exploration.                                              *)
(***************************************************************************)
\* the largest attempt-count cutoff among the retry policies explored
MaxRetries == 2

\* the largest number of search texts given to a pipeline search
MaxContents == 2

\* the largest number of chunks of an ingested document
MaxChunks == 4

\* the largest batch size of a pipeline
MaxBatchSize == 3

(***************************************************************************)
(* Inputs.                                                                 *)
(***************************************************************************)
POST == "POST"
DELETE == "DELETE"
Methods == {POST, DELETE, "GET"}

BceCredentials(account, api_key) ==
    [class |-> "BceCredentials", account |-> account, api_key |-> api_key,
     appbuilder_token |-> None]

AppBuilderCredentials(account, api_key, appbuilder_token) ==
    [class |-> "AppBuilderCredentials", account |-> account, api_key |-> api_key,
     appbuilder_token |-> Some(appbuilder_token)]

CredentialsSet ==
    {BceCredentials("root", "key1"), BceCredentials("alice", "key2"),
     AppBuilderCredentials("root", "key1", "tok1")}

AUTHORIZATION == "Authorization"
APPBUILDER_AUTHORIZATION == "X-Appbuilder-Authorization"

\* HTTP statuses the server may answer with
Statuses == {100, 200, 302, 404, 500}

\* every value of the enumeration ServerErrCode
ServerErrCode ==
    {1, 2, 10, 11, 12, 13, 20, 21, 22, 23, 24, 25, 50, 51, 52, 53,
     60, 61, 62, 63, 64, 65, 66, 67, 68, 69, 70, 71, 72, 73, 74,
     80, 81, 82, 90, 91, 92, 93, 94, 100, 101}

\* `code` values a server body may carry: members and non-members of the enum
WireCodes == {50, 91, 3}

EmptyBody == [kind |-> "empty", msg |-> None, code |-> None]
JsonBody(msg, code) == [kind |-> "json", msg |-> Some(msg), code |-> Some(code)]
Bodies == {EmptyBody} \cup {JsonBody("msg1", c) : c \in WireCodes}

Reason(status) ==
    CASE status = 100 -> "Continue"
      [] status = 200 -> "OK"
      [] status = 302 -> "Found"
      [] status = 404 -> "Not Found"
      [] status = 500 -> "Internal Server Error"
      [] OTHER -> "Unknown"

RequestIds == {None, Some("req-1")}

\* what session.post/session.delete can produce: a response, or a transport
\* exception (connection refused, timeout, ...)
Responses ==
    {[status_code |-> s, text |-> b, reason |-> Reason(s), bce_request_id |-> r] :
        s \in Statuses, b \in Bodies, r \in RequestIds}

(***************************************************************************)
(* Exceptions (exception.py).  Every exception object has the attributes   *)
(* of ServerError; the others leave them None.                             *)
(***************************************************************************)
Exc(type, message) ==
    [type |-> type, message |-> message, status_code |-> None, code |-> None,
     request_id |-> None, last_error |-> None, born |-> None]

\* the identity of an exception object: the attempt that created it
BornIn(exc, attempt) == [exc EXCEPT !.born = Some(attempt)]

ClientError(message) == Exc("ClientError", message)

\* Enum lookup ServerErrCode(code): the member, or ValueError
ServerErrCodeLookup(code) ==
    IF code # None /\ code[1] \in ServerErrCode
        THEN [ok |-> TRUE, member |-> code]
        ELSE [ok |-> FALSE, member |-> None]

\* ServerError.__init__: the result is the constructed exception, or the
\* ValueError raised by ServerErrCode(code) inside the constructor
ServerError(message, status_code, code, request_id) ==
    LET m == ServerErrCodeLookup(code) IN
    IF m.ok
        THEN [Exc("ServerError", message) EXCEPT
                 !.status_code = status_code, !.code = m.member,
                 !.request_id = request_id]
        ELSE Exc("ValueError", <<"is not a valid ServerErrCode">>)

HttpClientError(message, last_error) ==
    [Exc("HttpClientError", message) EXCEPT !.last_error = Some(last_error)]

ConnectionError == Exc("ConnectionError", <<"transport failure">>)

(***************************************************************************)
(* Retry policies.  A policy is known by its attempt-count cutoff: at or   *)
(* above the cutoff should_retry answers false, below it the answer is     *)
(* whatever the policy makes of the error.  Within one call every answer   *)
(* is given for another attempt count, so any sequence of answers below    *)
(* the cutoff is the sequence of some policy that is a function of the     *)
(* error and the attempt count.                                            *)
(***************************************************************************)
RetryPolicies == {[max_error_retry |-> k] : k \in 0..MaxRetries}

\* the answers should_retry(error, retries_attempted) can give
should_retry(policy, error, attempted) ==
    IF attempted >= policy.max_error_retry THEN {FALSE} ELSE BOOLEAN

(***************************************************************************)
(* Signer (auth/bce_v1_signer.py).                                         *)
(***************************************************************************)
BearerAccount(credentials) ==
    <<"Bearer account=", credentials.account, "&api_key=", credentials.api_key>>

\* A dict the function body works on: `alias` tells whether the local name
\* `headers` still refers to the caller's dict, `d` is the dict it refers to.
NoRebind(hdrs) == [alias |-> TRUE, d |-> hdrs]

\* line 35, `headers = {}`: the local name is bound to a new, empty dict
Rebind(hdrs) == [alias |-> FALSE, d |-> <<>>]

\* `headers[k] = v` on the dict the local name refers to
Store(local, k, v) == [local EXCEPT !.d = (k :> v) @@ local.d]

SignBody_one_header_for_all(credentials, method, path, hdrs, params) ==
    Store(Rebind(hdrs), AUTHORIZATION, Bytes(BearerAccount(credentials)))

\* lines 35-46: the local dict `headers` when sign returns
SignBody(credentials, method, path, hdrs, params) ==
    LET l0 == Rebind(hdrs) IN
    IF credentials.class = "BceCredentials"
        THEN Store(l0, AUTHORIZATION, Bytes(BearerAccount(credentials)))
    ELSE IF credentials.class = "AppBuilderCredentials"
        THEN Store(Store(l0, AUTHORIZATION, Bytes(BearerAccount(credentials))),
                   APPBUILDER_AUTHORIZATION,
                   Bytes(<<"Bearer ", credentials.appbuilder_token[1]>>))
    ELSE l0

\* the value sign returns
sign(credentials, method, path, hdrs, params) ==
    SignBody(credentials, method, path, hdrs, params).d

\* the caller's headers dict once sign has returned
HeadersAfterSign(credentials, method, path, hdrs, params) ==
    LET l == SignBody(credentials, method, path, hdrs, params) IN
    IF l.alias THEN l.d ELSE hdrs

(***************************************************************************)
(* Response handlers (http/handler.py).  Each returns [ret, exc]: the      *)
(* handler's return value, or the exception it raises.                     *)
(***************************************************************************)
Returned(b) == [ret |-> Some(b), exc |-> None]
Raised(x) == [ret |-> None, exc |-> Some(x)]

\* lines 70-80 of parse_error: the exception built from a non-2xx, non-1xx
\* response; bse.status_code is assigned only if the constructor returned
ErrorFromResponse(resp) ==
    LET bse == IF resp.text.kind # "empty"
                   THEN ServerError(<<resp.text.msg[1]>>, None, resp.text.code, None)
                   ELSE ServerError(<<resp.reason>>, None, None, resp.bce_request_id)
    IN IF bse.type = "ServerError"
           THEN [bse EXCEPT !.status_code = Some(resp.status_code)]
           ELSE bse

parse_error_accepts_below_400(resp) ==
    IF resp.status_code < 400 THEN Returned(FALSE)
    ELSE Raised(ErrorFromResponse(resp))

parse_error(resp) ==
    IF resp.status_code \div 100 = 200 \div 100 THEN Returned(FALSE)
    ELSE IF resp.status_code \div 100 = 100 \div 100
        THEN Raised(ClientError(<<"Can not handle 1xx http status code">>))
    ELSE Raised(ErrorFromResponse(resp))

parse_json(resp) == Returned(TRUE)

\* the loop `for handler_function in [parse_error, body_parser]` of
\* _send_request: [exc, parsed] where parsed tells whether body_parser ran
RunHandlers(resp) ==
    LET first == parse_error(resp) IN
    IF first.exc # None THEN [exc |-> first.exc, parsed |-> FALSE]
    ELSE IF first.ret[1] THEN [exc |-> None, parsed |-> FALSE]
    ELSE [exc |-> parse_json(resp).exc, parsed |-> TRUE]

(***************************************************************************)
(* HTTPClient.send_request / _send_request (http/http_client.py).          *)
(***************************************************************************)
\* lines 149-193: the headers before the loop
InitialHeaders(cfg, method, body) ==
    LET h0 == ("User-Agent" :> Bytes(<<"pymochow">>))
              @@ ("Host" :> Bytes(<<"host">>))
              @@ ("Content-Length" :> Str(IF body = None THEN <<"0">> ELSE <<"len">>))
    IN (AUTHORIZATION :> Dict(sign(cfg.credentials, method, "path", h0, None))) @@ h0

\* lines 200-204: the headers of one attempt
AttemptHeaders(cfg, method, hdrs) ==
    LET h1 == ("x-bce-date" :> Bytes(<<"canonical time">>)) @@ hdrs IN
    (AUTHORIZATION :> Dict(sign(cfg.credentials, method, "path", h1, None))) @@ h1

\* line 208-219: the methods that are dispatched
Dispatched(method) == method \in {POST, DELETE}

AfterDecision_always_retries(answer) == "sleep"

\* lines 254-262: where the handler goes after the should_retry answer
AfterDecision(answer) == IF answer THEN "sleep" ELSE "raise"

Reraised_wrapped(exc, attempted, errs) ==
    HttpClientError(<<"Unable to execute HTTP request. Retried ", "%d", " times.">>, exc)

\* line 262 and lines 124-125: the exception that leaves send_request
Reraised(exc, attempted, errs) == exc

\* no call is in progress: the arguments hold placeholders
IdleConfig == [credentials |-> BceCredentials("root", "key1"),
               retry_policy |-> [max_error_retry |-> 0]]

HttpInit ==
    /\ pc = "idle"
    /\ http_method = POST
    /\ config = IdleConfig
    /\ headers = <<>>
    /\ retries_attempted = 0
    /\ errors = <<>>
    /\ e = None
    /\ http_response = None
    /\ outcome = None
    /\ dispatches = 0
    /\ sleeps = 0
    /\ decisions = <<>>
    /\ sent = None
    /\ parsed = {}

\* send_request up to the `while True:` of _send_request (lines 116-196)
SendRequest(method, cfg, body) ==
    /\ pc = "idle"
    /\ pc' = "loop"
    /\ http_method' = method
    /\ config' = cfg
    /\ headers' = InitialHeaders(cfg, method, body)
    /\ retries_attempted' = 0
    /\ errors' = <<>>
    /\ e' = None
    /\ http_response' = None
    /\ outcome' = None
    /\ dispatches' = 0
    /\ sleeps' = 0
    /\ decisions' = <<>>
    /\ sent' = None
    /\ parsed' = {}
    /\ UNCHANGED nonHttpVars

\* the try block (lines 198-249) for a method that is not POST or DELETE
AttemptUnsupported ==
    /\ pc = "loop"
    /\ ~Dispatched(http_method)
    /\ headers' = AttemptHeaders(config, http_method, headers)
    /\ e' = Some(BornIn(ClientError(<<"Http method ", http_method, " not supported.">>),
                        retries_attempted))
    /\ http_response' = None
    /\ pc' = "except"
    /\ UNCHANGED <<http_method, config, retries_attempted, errors,
                   outcome, dispatches, sleeps, decisions, sent, parsed>>
    /\ UNCHANGED nonHttpVars

\* the try block when session.post/delete raises
AttemptTransportError ==
    /\ pc = "loop"
    /\ Dispatched(http_method)
    /\ headers' = AttemptHeaders(config, http_method, headers)
    /\ dispatches' = dispatches + 1
    /\ sent' = Some(headers')
    /\ e' = Some(BornIn(ConnectionError, retries_attempted))
    /\ http_response' = None
    /\ pc' = "except"
    /\ UNCHANGED <<http_method, config, retries_attempted, errors,
                   outcome, sleeps, decisions, parsed>>
    /\ UNCHANGED nonHttpVars

\* the try block when session.post/delete returns a response
AttemptResponse(resp) ==
    /\ pc = "loop"
    /\ Dispatched(http_method)
    /\ headers' = AttemptHeaders(config, http_method, headers)
    /\ dispatches' = dispatches + 1
    /\ sent' = Some(headers')
    /\ http_response' = Some(resp)
    /\ LET h == RunHandlers(resp) IN
       /\ parsed' = IF h.parsed THEN parsed \cup {resp.status_code} ELSE parsed
       /\ IF h.exc = None
             THEN /\ pc' = "returned"
                  /\ outcome' = Some([kind |-> "response", status_code |-> resp.status_code,
                                      body |-> resp.text])
                  /\ UNCHANGED e
             ELSE /\ pc' = "except"
                  /\ e' = Some(BornIn(h.exc[1], retries_attempted))
                  /\ UNCHANGED outcome
    /\ UNCHANGED <<http_method, config, retries_attempted, errors, sleeps, decisions>>
    /\ UNCHANGED nonHttpVars

\* the except block up to the should_retry answer (lines 250-254)
Except ==
    /\ pc = "except"
    /\ errors' = Append(errors, <<">>>>", e[1].type>>)
    /\ \E answer \in should_retry(config.retry_policy, e[1], retries_attempted) :
       /\ decisions' = Append(decisions, answer)
       /\ pc' = AfterDecision(answer)
    /\ UNCHANGED <<http_method, config, headers, retries_attempted, e, http_response,
                   outcome, dispatches, sleeps, sent, parsed>>
    /\ UNCHANGED nonHttpVars

Sleep_without_count ==
    /\ pc = "sleep"
    /\ sleeps' = sleeps + 1
    /\ pc' = "loop"
    /\ UNCHANGED <<http_method, config, headers, retries_attempted, errors, e, http_response,
                   outcome, dispatches, decisions, sent, parsed>>
    /\ UNCHANGED nonHttpVars

\* lines 255-257 and 267: get_delay_before_next_retry_in_millis(e,
\* retries_attempted), sleep, count the retry
Sleep ==
    /\ pc = "sleep"
    /\ sleeps' = sleeps + 1
    /\ retries_attempted' = retries_attempted + 1
    /\ pc' = "loop"
    /\ UNCHANGED <<http_method, config, headers, errors, e, http_response, outcome,
                   dispatches, decisions, sent, parsed>>
    /\ UNCHANGED nonHttpVars

\* lines 259-262, then `except Exception as e: raise e` of send_request
Raise ==
    /\ pc = "raise"
    /\ outcome' = Some([kind |-> "exception",
                        exc |-> Reraised(e[1], retries_attempted, errors)])
    /\ pc' = "raised"
    /\ UNCHANGED <<http_method, config, headers, retries_attempted, errors, e,
                   http_response, dispatches, sleeps, decisions, sent, parsed>>
    /\ UNCHANGED nonHttpVars

\* the caller has the result; the call's locals are gone and it may call again
Done ==
    /\ pc \in {"returned", "raised"}
    /\ pc' = "idle"
    /\ http_method' = POST
    /\ config' = IdleConfig
    /\ headers' = <<>>
    /\ retries_attempted' = 0
    /\ errors' = <<>>
    /\ e' = None
    /\ http_response' = None
    /\ outcome' = None
    /\ dispatches' = 0
    /\ sleeps' = 0
    /\ decisions' = <<>>
    /\ sent' = None
    /\ parsed' = {}
    /\ UNCHANGED nonHttpVars

(***************************************************************************)
(* Configuration (configuration.py).  A field value is None or a tuple of  *)
(* strings; objects live in `heap` and are held by reference, so that      *)
(* sharing and copying are visible.                                        *)
(***************************************************************************)
\* the attributes, in the order __init__ assigns them (the order of __dict__)
FieldOrder ==
    <<"credentials", "endpoint", "protocol", "connection_timeout_in_mills",
      "send_buf_size", "recv_buf_size", "proxy_host", "proxy_port",
      "retry_policy", "security_token", "cname_enabled", "backup_endpoint">>

Fields == {FieldOrder[i] : i \in DOMAIN FieldOrder}

PyTrue == <<"True">>
PyFalse == <<"False">>
BackOffRetryPolicy == <<"BackOffRetryPolicy()">>

\* compat.convert_to_bytes on a str
convert_to_bytes(v) == <<"bytes">> \o v

Arg(args, f, default) == IF f \in DOMAIN args THEN args[f] ELSE default

\* Configuration.__init__ called with the keyword arguments `args`
Configuration(args) ==
    [f \in Fields |->
        CASE f \in {"endpoint", "backup_endpoint"} ->
                 IF Arg(args, f, None) # None
                     THEN convert_to_bytes(Arg(args, f, None))
                     ELSE Arg(args, f, None)
          [] f = "retry_policy" ->
                 IF Arg(args, f, None) = None
                     THEN BackOffRetryPolicy
                     ELSE Arg(args, f, None)
          [] f = "cname_enabled" -> Arg(args, f, PyFalse)
          [] OTHER -> Arg(args, f, None)]

DEFAULT_PROTOCOL == <<"HTTP">>
DEFAULT_CONNECTION_TIMEOUT_IN_MILLIS == <<"50 * 1000">>
DEFAULT_SEND_BUF_SIZE == <<"1024 * 1024">>
DEFAULT_RECV_BUF_SIZE == <<"10 * 1024 * 1024">>

DEFAULT_CONFIG ==
    Configuration(
        ("protocol" :> DEFAULT_PROTOCOL)
        @@ ("connection_timeout_in_mills" :> DEFAULT_CONNECTION_TIMEOUT_IN_MILLIS)
        @@ ("send_buf_size" :> DEFAULT_SEND_BUF_SIZE)
        @@ ("recv_buf_size" :> DEFAULT_RECV_BUF_SIZE)
        @@ ("retry_policy" :> BackOffRetryPolicy))

\* the loop body of merge_non_none_values, over the items of other.__dict__
RECURSIVE MergeItems_overwrites_with_none(_, _, _)
MergeItems_overwrites_with_none(self, other, i) ==
    IF i > Len(FieldOrder) THEN self
    ELSE MergeItems_overwrites_with_none(
             [self EXCEPT ![FieldOrder[i]] = other[FieldOrder[i]]], other, i + 1)

RECURSIVE MergeItems(_, _, _)
MergeItems(self, other, i) ==
    IF i > Len(FieldOrder) THEN self
    ELSE LET k == FieldOrder[i]
             v == other[k]
         IN MergeItems(IF v # None THEN [self EXCEPT ![k] = v] ELSE self, other, i + 1)

\* Configuration.merge_non_none_values on the objects self and other of heap h
merge_non_none_values(h, self, other) ==
    [h EXCEPT ![self] = MergeItems(h[self], h[other], 1)]

(***************************************************************************)
(* The heap of Configuration objects.                                      *)
(***************************************************************************)
\* the places an object can be allocated at, by allocation site.  The sites
\* of the client-level config and of the callers' configs have two places, and
\* an allocation there takes one that no live object occupies; the copies made
\* by _merge_config are dropped by the step that makes the next one, which
\* takes their place.
Sites == {"client_arg", "client_config", "call_arg",
          "client_merged", "database_merged", "table_merged"}
TwoPlaceSites == {"client_arg", "client_config", "call_arg"}
DefaultRef == <<"DEFAULT_CONFIG", 1>>
Refs == {DefaultRef} \cup (Sites \X {1}) \cup (TwoPlaceSites \X {2})
Free == <<"free">>

Fresh(h, site) ==
    IF site \in TwoPlaceSites /\ h[<<site, 1>>] # Free THEN <<site, 2>> ELSE <<site, 1>>

\* the site of the caller's Configuration(**args)
ArgSite(op) == IF op = "init" THEN "client_arg" ELSE "call_arg"

\* the site of the copy made by MochowClient.__init__ or by _merge_config
CopySite(op) ==
    CASE op = "init" -> "client_config"
      [] op = "client" -> "client_merged"
      [] op \in {"database", "database_table"} -> "database_merged"
      [] op = "table" -> "table_merged"

RefsOf(opt) == IF opt = None THEN {} ELSE {opt[1]}

\* objects no variable refers to are released
Collect(h, roots) == [r \in Refs |-> IF r \in roots \cup {DefaultRef} THEN h[r] ELSE Free]

Roots(c, ca, d, t, p, u) ==
    RefsOf(c) \cup RefsOf(ca) \cup RefsOf(d) \cup RefsOf(t)
    \cup (IF p = None THEN {} ELSE {p[1].target, p[1].base} \cup RefsOf(p[1].other))
    \cup (IF u = None THEN {} ELSE {u[1].config, u[1].base} \cup RefsOf(u[1].override))

copy_returns_same_object(h, src, fresh) == [heap |-> h, ref |-> src]

\* copy.copy / copy.deepcopy of the object src into the free slot `fresh`
\* (field values are immutable, so the two copies agree)
copy_copy(h, src, fresh) == [heap |-> [h EXCEPT ![fresh] = h[src]], ref |-> fresh]

(***************************************************************************)
(* The callers' keyword arguments.                                         *)
(***************************************************************************)
ArgValue(who, f) == IF f = "cname_enabled" THEN PyTrue ELSE <<who, f>>

\* the arguments a caller may pass when building the client-level config
ClientParams == {"endpoint", "retry_policy", "cname_enabled"}
\* the arguments a caller may pass when building a per-call config
CallParams == {"connection_timeout_in_mills", "retry_policy"}

ArgsOver(who, params) == {[f \in S |-> ArgValue(who, f)] : S \in SUBSET params}

(***************************************************************************)
(* MochowClient / Database / Table: the operations that take a config.     *)
(***************************************************************************)
CfgInit ==
    /\ heap = [r \in Refs |-> IF r = DefaultRef THEN DEFAULT_CONFIG ELSE Free]
    /\ client = None
    /\ clientArg = None
    /\ db = None
    /\ table = None
    /\ pending = None
    /\ used = None

\* MochowClient() without a config (mochow_client.py lines 35-39)
NewClientDefault ==
    /\ pending = None
    /\ LET c == copy_copy(heap, DefaultRef, Fresh(heap, CopySite("init"))) IN
       /\ client' = Some(c.ref)
       /\ clientArg' = None
       /\ db' = None
       /\ table' = None
       /\ used' = None
       /\ pending' = None
       /\ heap' = Collect(c.heap, Roots(client', clientArg', db', table', pending', used'))
    /\ UNCHANGED nonCfgVars

\* the caller builds Configuration(**args) and calls MochowClient(config):
\* line 36, the deep copy of DEFAULT_CONFIG
NewClientCopy(args) ==
    /\ pending = None
    /\ LET a == Fresh(heap, ArgSite("init"))
           h1 == [heap EXCEPT ![a] = Configuration(args)]
           c == copy_copy(h1, DefaultRef, Fresh(heap, CopySite("init")))
       IN
       /\ client' = None
       /\ clientArg' = None
       /\ db' = None
       /\ table' = None
       /\ used' = None
       /\ pending' = Some([op |-> "init", target |-> c.ref, base |-> DefaultRef,
                           other |-> Some(a), passed |-> DOMAIN args])
       /\ heap' = Collect(c.heap, Roots(client', clientArg', db', table', pending', used'))
    /\ UNCHANGED nonCfgVars

\* the handle an operation of the given level is invoked on
HandleOf(level) ==
    CASE level = "client" -> client
      [] level = "database" -> db
      [] level = "database_table" -> db
      [] level = "table" -> table

Levels == {"client", "database", "database_table", "table"}

\* what the operation leaves behind once send_request was given `cfg`:
\*   client level (create_database, list_databases, database): a Database
\*     handle holding the merged config (mochow_client.py lines 63-65, 75-77);
\*   database level returning a table (create_table, describe_table): a Table
\*     handle holding the Database's own config (database.py lines 177-180, 303);
\*   the other Database and Table operations: nothing.
DbAfter(level, cfg) == IF level = "client" THEN Some(cfg) ELSE db
TableAfter(level, cfg) ==
    IF level = "client" THEN None
    ELSE IF level = "database_table" THEN db
    ELSE table

\* an operation called with config=None: _merge_config returns self._config
CallWithoutConfig(level) ==
    /\ pending = None
    /\ HandleOf(level) # None
    /\ LET base == HandleOf(level)[1] IN
       /\ used' = Some([level |-> level, config |-> base, base |-> base,
                        override |-> None, passed |-> {}])
       /\ db' = DbAfter(level, base)
       /\ table' = TableAfter(level, base)
       /\ pending' = None
       /\ heap' = Collect(heap, Roots(client, clientArg, db', table', pending', used'))
    /\ UNCHANGED <<client, clientArg>>
    /\ UNCHANGED nonCfgVars

\* the caller builds Configuration(**args) and passes it to an operation:
\* _merge_config up to new_config = copy.copy(self._config).  The caller keeps
\* one Database and one Table handle: asking the client for a Database gives
\* up the handles it had.
CallCopy(level, args) ==
    /\ pending = None
    /\ HandleOf(level) # None
    /\ LET base == HandleOf(level)[1]
           o == Fresh(heap, ArgSite(level))
           h1 == [heap EXCEPT ![o] = Configuration(args)]
           c == copy_copy(h1, base, Fresh(heap, CopySite(level)))
       IN
       /\ pending' = Some([op |-> level, target |-> c.ref, base |-> base,
                           other |-> Some(o), passed |-> DOMAIN args])
       /\ used' = None
       /\ db' = IF level = "client" THEN None ELSE db
       /\ table' = IF level = "client" THEN None ELSE table
       /\ heap' = Collect(c.heap, Roots(client, clientArg, db', table', pending', used'))
    /\ UNCHANGED <<client, clientArg>>
    /\ UNCHANGED nonCfgVars

\* the merge_non_none_values call and what follows it: MochowClient.__init__
\* keeps the merged object; an operation hands it to send_request
Merge ==
    /\ pending # None
    /\ LET p == pending[1]
           h1 == merge_non_none_values(heap, p.target, p.other[1])
       IN
       /\ pending' = None
       /\ IF p.op = "init"
             THEN /\ client' = Some(p.target)
                  /\ clientArg' = p.other
                  /\ UNCHANGED <<db, table, used>>
             ELSE /\ used' = Some([level |-> p.op, config |-> p.target, base |-> p.base,
                                   override |-> p.other, passed |-> p.passed])
                  /\ db' = DbAfter(p.op, p.target)
                  /\ table' = TableAfter(p.op, p.target)
                  /\ UNCHANGED <<client, clientArg>>
       /\ heap' = Collect(h1, Roots(client', clientArg', db', table', pending', used'))
    /\ UNCHANGED nonCfgVars

(***************************************************************************)
(* Calls of sign, one after another, on arguments of every kind.           *)
(***************************************************************************)
\* headers a caller may pass: none, and some with a stale Authorization
SignHeaders ==
    {<<>>,
     ("Host" :> Bytes(<<"host">>)) @@ (AUTHORIZATION :> Bytes(<<"stale">>))}

SignParams == {None, Some(("upsert" :> ""))}
SignPaths == {"/v1/row", "/v1/table"}
SignTimestamps == {0, 1700000000}

SignInit ==
    /\ signLast = None
    /\ signPrev = None

\* sign(credentials, http_method, path, headers, params, timestamp)
Sign(credentials, method, path, hdrs, params, timestamp) ==
    /\ signPrev' = signLast
    /\ signLast' = Some([credentials |-> credentials, http_method |-> method,
                         path |-> path, headers |-> hdrs, params |-> params,
                         timestamp |-> timestamp,
                         ret |-> sign(credentials, method, path, hdrs, params),
                         headers_after |->
                             HeadersAfterSign(credentials, method, path, hdrs, params),
                         params_after |-> params])
    /\ UNCHANGED nonSignVars

SignNext ==
    \E credentials \in CredentialsSet, method \in {POST, DELETE}, path \in SignPaths,
       hdrs \in SignHeaders, params \in SignParams, timestamp \in SignTimestamps :
        Sign(credentials, method, path, hdrs, params, timestamp)

(***************************************************************************)
(* Search requests and their rendering (model/table.py).  A dict is a      *)
(* function from its keys; a float is written as its decimal string.       *)
(***************************************************************************)
Put(d, k, v) == (k :> v) @@ d

\* `if x is not None: d[k] = x`
PutIfNotNone(d, k, opt) == IF opt # None THEN Put(d, k, opt[1]) ELSE d

\* dict.update(other)
Update(d, other) == other @@ d

\* VectorSearchConfig(ef=..., pruning=..., search_coarse_count=...)
VectorSearchConfig(args) ==
    [ef |-> Arg(args, "ef", None), pruning |-> Arg(args, "pruning", None),
     search_coarse_count |-> Arg(args, "search_coarse_count", None)]

VectorSearchConfig_to_dict(self) ==
    PutIfNotNone(PutIfNotNone(PutIfNotNone(<<>>, "ef", self.ef),
                              "pruning", self.pruning),
                 "searchCoarseCount", self.search_coarse_count)

\* the three vector requests share one shape; an attribute a class does not
\* have is None
VectorRequest(class, args, default_limit) ==
    [class |-> class,
     vector_field |-> args["vector_field"],
     vector |-> Arg(args, "vector", None),
     vectors |-> Arg(args, "vectors", None),
     distance_near |-> Arg(args, "distance_near", None),
     distance_far |-> Arg(args, "distance_far", None),
     limit |-> Arg(args, "limit", default_limit),
     filter |-> Arg(args, "filter", None),
     config |-> Arg(args, "config", None)]

\* VectorTopkSearchRequest.__init__: limit defaults to 50
VectorTopkSearchRequest(args) == VectorRequest("VectorTopkSearchRequest", args, Some(50))

\* VectorRangeSearchRequest.__init__: limit defaults to None
VectorRangeSearchRequest(args) == VectorRequest("VectorRangeSearchRequest", args, None)

\* VectorBatchSearchRequest.__init__: limit defaults to None
VectorBatchSearchRequest(args) == VectorRequest("VectorBatchSearchRequest", args, None)

\* `params = self._config.to_dict()` if a config is set, else an empty dict
ConfigParams(self) ==
    IF self.config # None THEN VectorSearchConfig_to_dict(self.config[1]) ELSE <<>>

\* `if len(params) != 0: anns["params"] = params; res["anns"] = anns`
WithParams(anns, params) ==
    "anns" :> (IF params # <<>> THEN Put(anns, "params", params) ELSE anns)

\* VectorTopkSearchRequest.to_dict
VectorTopk_to_dict(self) ==
    LET anns == PutIfNotNone(("vectorField" :> self.vector_field)
                             @@ ("vectorFloats" :> self.vector[1]),
                             "filter", self.filter)
        params == PutIfNotNone(ConfigParams(self), "limit", self.limit)
    IN WithParams(anns, params)

\* VectorRangeSearchRequest.to_dict
VectorRange_to_dict(self) ==
    LET anns == PutIfNotNone(("vectorField" :> self.vector_field)
                             @@ ("vectorFloats" :> self.vector[1]),
                             "filter", self.filter)
        params == PutIfNotNone(
                      PutIfNotNone(
                          PutIfNotNone(ConfigParams(self), "distanceNear", self.distance_near),
                          "distanceFar", self.distance_far),
                      "limit", self.limit)
    IN WithParams(anns, params)

\* VectorBatchSearchRequest.to_dict
VectorBatch_to_dict(self) ==
    LET anns == PutIfNotNone(("vectorField" :> self.vector_field)
                             @@ ("vectorFloats" :> self.vectors[1]),
                             "filter", self.filter)
        params == PutIfNotNone(
                      PutIfNotNone(
                          PutIfNotNone(ConfigParams(self), "distanceNear", self.distance_near),
                          "distanceFar", self.distance_far),
                      "limit", self.limit)
    IN WithParams(anns, params)

\* BM25SearchRequest.__init__
BM25SearchRequest(args) ==
    [class |-> "BM25SearchRequest",
     index_name |-> args["index_name"], search_text |-> args["search_text"],
     limit |-> Arg(args, "limit", None), filter |-> Arg(args, "filter", None)]

\* BM25SearchRequest.to_dict
BM25_to_dict(self) ==
    PutIfNotNone(
        PutIfNotNone(
            "BM25SearchParams" :> (("indexName" :> self.index_name)
                                   @@ ("searchText" :> self.search_text)),
            "limit", self.limit),
        "filter", self.filter)

\* to_dict of a vector request, by the class of the object
Vector_to_dict(self) ==
    CASE self.class = "VectorTopkSearchRequest" -> VectorTopk_to_dict(self)
      [] self.class = "VectorRangeSearchRequest" -> VectorRange_to_dict(self)
      [] self.class = "VectorBatchSearchRequest" -> VectorBatch_to_dict(self)

\* HybridSearchRequest.__init__: the weights default to 0.5
HybridSearchRequest(args) ==
    [class |-> "HybridSearchRequest",
     vector_request |-> args["vector_request"],
     bm25_request |-> args["bm25_request"],
     vector_weight |-> Arg(args, "vector_weight", "0.5"),
     bm25_weight |-> Arg(args, "bm25_weight", "0.5"),
     limit |-> Arg(args, "limit", None), filter |-> Arg(args, "filter", None)]

\* HybridSearchRequest.to_dict
Hybrid_to_dict(self) ==
    LET v0 == Vector_to_dict(self.vector_request)
        vector_search_params ==
            [v0 EXCEPT !["anns"] = Put(v0["anns"], "weight", self.vector_weight)]
        b0 == BM25_to_dict(self.bm25_request)
        bm25_search_params ==
            [b0 EXCEPT !["BM25SearchParams"] =
                Put(b0["BM25SearchParams"], "weight", self.bm25_weight)]
        res == Update(Update(<<>>, vector_search_params), bm25_search_params)
    IN PutIfNotNone(PutIfNotNone(res, "limit", self.limit), "filter", self.filter)

(***************************************************************************)
(* The requests explored.                                                  *)
(***************************************************************************)
\* the keyword arguments a caller may pass: each optional argument is left out
\* or given one of its values
RECURSIVE KeywordArgsOver(_, _)
KeywordArgsOver(choices, keys) ==
    IF keys = {} THEN {<<>>}
    ELSE LET k == CHOOSE x \in keys : TRUE
             rest == KeywordArgsOver(choices, keys \ {k})
         IN rest \cup {(k :> v) @@ a : v \in choices[k], a \in rest}

KeywordArgs(choices) == KeywordArgsOver(choices, DOMAIN choices)

AVector == <<"0.1", "0.2">>
BVector == <<"0.3", "0.4">>
AConfig == VectorSearchConfig("ef" :> Some(200))

VectorBase == ("vector_field" :> "embedding") @@ ("vector" :> Some(AVector))

TopkRequests ==
    {VectorTopkSearchRequest(a @@ VectorBase) :
        a \in KeywordArgs(("limit" :> {None, Some(7)})
                          @@ ("filter" :> {Some("vf")})
                          @@ ("config" :> {Some(AConfig)}))}

RangeRequests ==
    {VectorRangeSearchRequest(a @@ ("distance_near" :> Some("0.1"))
                                @@ ("distance_far" :> Some("0.9")) @@ VectorBase) :
        a \in KeywordArgs(("limit" :> {Some(7)}) @@ ("filter" :> {Some("vf")}))}

BatchRequests ==
    {VectorBatchSearchRequest(a @@ ("vector_field" :> "embedding")
                                @@ ("vectors" :> Some(<<AVector, BVector>>))) :
        a \in KeywordArgs(("limit" :> {Some(7)}) @@ ("filter" :> {Some("vf")}))}

VectorRequests == TopkRequests \cup RangeRequests \cup BatchRequests

BM25Requests ==
    {BM25SearchRequest(a @@ ("index_name" :> "content_inverted_idx")
                         @@ ("search_text" :> "bm25 search text")) :
        a \in KeywordArgs(("limit" :> {Some(9)}) @@ ("filter" :> {Some("bf")}))}

HybridRequests ==
    {HybridSearchRequest(a @@ ("vector_request" :> v) @@ ("bm25_request" :> b)) :
        v \in VectorRequests, b \in BM25Requests,
        a \in KeywordArgs(("vector_weight" :> {"0.4"}) @@ ("bm25_weight" :> {"0.6"})
                          @@ ("limit" :> {Some(15)}) @@ ("filter" :> {Some("hf")}))}

SearchInit ==
    /\ searchRequest = None
    /\ searchBody = None

\* request.to_dict() for a vector request
RenderVector(request) ==
    /\ searchRequest = None
    /\ searchRequest' = Some(request)
    /\ searchBody' = Some(Vector_to_dict(request))
    /\ UNCHANGED nonSearchVars

\* request.to_dict() for a BM25 request
RenderBM25(request) ==
    /\ searchRequest = None
    /\ searchRequest' = Some(request)
    /\ searchBody' = Some(BM25_to_dict(request))
    /\ UNCHANGED nonSearchVars

\* request.to_dict() for a hybrid request
RenderHybrid(request) ==
    /\ searchRequest = None
    /\ searchRequest' = Some(request)
    /\ searchBody' = Some(Hybrid_to_dict(request))
    /\ UNCHANGED nonSearchVars

SearchNext ==
    \/ \E request \in VectorRequests : RenderVector(request)
    \/ \E request \in BM25Requests : RenderBM25(request)
    \/ \E request \in HybridRequests : RenderHybrid(request)

(***************************************************************************)
(* DefaultPipeline (ai/pipeline/default_pipeline.py).  The embedder, the   *)
(* document processor and the tables are collaborators: a call on one of   *)
(* them is a network call, which returns or raises.                        *)
(***************************************************************************)
SearchOps == {"vector_search", "hybrid_search"}

VectorRequestClasses ==
    {"VectorTopkSearchRequest", "VectorRangeSearchRequest", "VectorBatchSearchRequest"}

\* the required arguments of ingest_doc, in the order they are checked
IngestRequired == <<"doc_processor", "embedder", "meta_table", "chunk_table">>

NoArgs == [op |-> "none", contents |-> 0, request_class |-> "none",
           chunks |-> 0, batch_size |-> 0, missing |-> {}]

Call(target, op, sent_rows, raised) ==
    [target |-> target, op |-> op, rows |-> sent_rows, raised |-> raised]

ValueError(message) == Exc("ValueError", <<message>>)

\* what a collaborator's call can raise
UpstreamError == ConnectionError

PipeReturned == Some([kind |-> "returned", exc |-> None])
PipeRaised(exc) == Some([kind |-> "exception", exc |-> Some(exc)])

PipeInit ==
    /\ ppc = "idle"
    /\ pargs = NoArgs
    /\ calls = <<>>
    /\ rows = <<>>
    /\ batch_start = 0
    /\ stored = [meta |-> <<>>, chunk |-> <<>>]
    /\ pout = None

\* lines 124-125 and 228-229: `if not search_contents or len(...) == 0`
StartSearch(op, contents, request_class) ==
    /\ ppc = "idle"
    /\ pargs' = [NoArgs EXCEPT !.op = op, !.contents = contents,
                               !.request_class = request_class]
    /\ IF contents = 0
          THEN /\ ppc' = "raised"
               /\ pout' = PipeRaised(ValueError("search_contents must not be None or empty"))
          ELSE /\ ppc' = "embed_text"
               /\ pout' = None
    /\ UNCHANGED <<calls, rows, batch_start, stored>>
    /\ UNCHANGED nonPipeVars

\* lines 127 and 231: embedder.embedding_text(search_contents) returns
EmbedTextReturns ==
    /\ ppc = "embed_text"
    /\ calls' = Append(calls, Call("embedder", "embedding_text", <<>>, FALSE))
    /\ ppc' = "check_request"
    /\ UNCHANGED <<pargs, rows, batch_start, stored, pout>>
    /\ UNCHANGED nonPipeVars

\* lines 127 and 231: embedder.embedding_text(search_contents) raises
EmbedTextRaises ==
    /\ ppc = "embed_text"
    /\ calls' = Append(calls, Call("embedder", "embedding_text", <<>>, TRUE))
    /\ ppc' = "raised"
    /\ pout' = PipeRaised(UpstreamError)
    /\ UNCHANGED <<pargs, rows, batch_start, stored>>
    /\ UNCHANGED nonPipeVars

\* lines 130-141 and 233-244: the isinstance tests on the vector request
RequestFits(contents, request_class) ==
    IF contents = 1
        THEN request_class \in {"VectorTopkSearchRequest", "VectorRangeSearchRequest"}
        ELSE request_class = "VectorBatchSearchRequest"

\* lines 130-141 and 233-244: raise ValueError, or set the vector(s)
CheckRequest ==
    /\ ppc = "check_request"
    /\ IF RequestFits(pargs.contents, pargs.request_class)
          THEN /\ ppc' = "table_search"
               /\ pout' = None
          ELSE /\ ppc' = "raised"
               /\ pout' = PipeRaised(ValueError(
                              IF pargs.contents = 1
                                  THEN "For a single search content"
                                  ELSE "For multiple search contents"))
    /\ UNCHANGED <<pargs, calls, rows, batch_start, stored>>
    /\ UNCHANGED nonPipeVars

\* lines 145-153 and 246-254: table.vector_search / table.hybrid_search returns
TableSearchReturns ==
    /\ ppc = "table_search"
    /\ calls' = Append(calls, Call("table", pargs.op, <<>>, FALSE))
    /\ ppc' = "returned"
    /\ pout' = PipeReturned
    /\ UNCHANGED <<pargs, rows, batch_start, stored>>
    /\ UNCHANGED nonPipeVars

\* lines 145-153 and 246-254: table.vector_search / table.hybrid_search raises
TableSearchRaises ==
    /\ ppc = "table_search"
    /\ calls' = Append(calls, Call("table", pargs.op, <<>>, TRUE))
    /\ ppc' = "raised"
    /\ pout' = PipeRaised(UpstreamError)
    /\ UNCHANGED <<pargs, rows, batch_start, stored>>
    /\ UNCHANGED nonPipeVars

\* the first required argument that is None, in the order of lines 67-74
FirstMissing(missing) ==
    LET idx == {i \in DOMAIN IngestRequired : IngestRequired[i] \in missing}
    IN IngestRequired[CHOOSE i \in idx : \A j \in idx : i <= j]

\* lines 67-74 of ingest_doc, called on a document of `chunks` chunks by a
\* pipeline built with DefaultPipeline(batch_size)
StartIngest(chunks, batch_size, missing) ==
    /\ ppc = "idle"
    /\ pargs' = [NoArgs EXCEPT !.op = "ingest_doc", !.chunks = chunks,
                               !.batch_size = batch_size, !.missing = missing]
    /\ IF missing # {}
          THEN /\ ppc' = "raised"
               /\ pout' = PipeRaised(ValueError(FirstMissing(missing)))
          ELSE /\ ppc' = "meta_insert"
               /\ pout' = None
    /\ UNCHANGED <<calls, rows, batch_start, stored>>
    /\ UNCHANGED nonPipeVars

\* the row of the document and the rows of its chunks
DocRow == 0
ChunkRows(chunks) == [i \in 1..chunks |-> i]

\* lines 76-78: meta_table.insert(rows=[doc.to_row(...)]) returns
MetaInsertReturns ==
    /\ ppc = "meta_insert"
    /\ calls' = Append(calls, Call("meta_table", "insert", <<DocRow>>, FALSE))
    /\ stored' = [stored EXCEPT !.meta = stored.meta \o <<DocRow>>]
    /\ ppc' = "process_doc"
    /\ UNCHANGED <<pargs, rows, batch_start, pout>>
    /\ UNCHANGED nonPipeVars

\* lines 76-78: meta_table.insert raises
MetaInsertRaises ==
    /\ ppc = "meta_insert"
    /\ calls' = Append(calls, Call("meta_table", "insert", <<DocRow>>, TRUE))
    /\ ppc' = "raised"
    /\ pout' = PipeRaised(UpstreamError)
    /\ UNCHANGED <<pargs, rows, batch_start, stored>>
    /\ UNCHANGED nonPipeVars

\* line 81: doc_processor.process_doc(doc=doc) returns
ProcessDocReturns ==
    /\ ppc = "process_doc"
    /\ calls' = Append(calls, Call("doc_processor", "process_doc", <<>>, FALSE))
    /\ ppc' = "embedding"
    /\ UNCHANGED <<pargs, rows, batch_start, stored, pout>>
    /\ UNCHANGED nonPipeVars

\* line 81: doc_processor.process_doc(doc=doc) raises
ProcessDocRaises ==
    /\ ppc = "process_doc"
    /\ calls' = Append(calls, Call("doc_processor", "process_doc", <<>>, TRUE))
    /\ ppc' = "raised"
    /\ pout' = PipeRaised(UpstreamError)
    /\ UNCHANGED <<pargs, rows, batch_start, stored>>
    /\ UNCHANGED nonPipeVars

\* lines 80-84: embedder.embedding(...) returns the chunks, the first loop
\* fills `rows`, and range(0, len(rows), batch_size) starts at 0
EmbeddingReturns ==
    /\ ppc = "embedding"
    /\ calls' = Append(calls, Call("embedder", "embedding", <<>>, FALSE))
    /\ rows' = ChunkRows(pargs.chunks)
    /\ batch_start' = 0
    /\ ppc' = "batches"
    /\ UNCHANGED <<pargs, stored, pout>>
    /\ UNCHANGED nonPipeVars

\* line 81: embedder.embedding(...) raises
EmbeddingRaises ==
    /\ ppc = "embedding"
    /\ calls' = Append(calls, Call("embedder", "embedding", <<>>, TRUE))
    /\ ppc' = "raised"
    /\ pout' = PipeRaised(UpstreamError)
    /\ UNCHANGED <<pargs, rows, batch_start, stored>>
    /\ UNCHANGED nonPipeVars

\* the Python slice s[i:j]
Slice(s, i, j) == SubSeq(s, i + 1, IF j < Len(s) THEN j ELSE Len(s))

BatchRows_one_row_short(all_rows, i, batch_size) == Slice(all_rows, i, i + batch_size - 1)

\* line 85: batch_rows = rows[i:i + self._batch_size]
BatchRows(all_rows, i, batch_size) == Slice(all_rows, i, i + batch_size)

AfterInsertError_next_batch(exc) == [ppc |-> "batches", pout |-> None]

\* line 86 is in no try block: an exception of chunk_table.insert leaves
\* ingest_doc
AfterInsertError(exc) == [ppc |-> "raised", pout |-> PipeRaised(exc)]

\* lines 84-86: one pass of the loop, chunk_table.insert returns
BatchInsertReturns ==
    /\ ppc = "batches"
    /\ batch_start < Len(rows)
    /\ LET batch_rows == BatchRows(rows, batch_start, pargs.batch_size) IN
       /\ calls' = Append(calls, Call("chunk_table", "insert", batch_rows, FALSE))
       /\ stored' = [stored EXCEPT !.chunk = stored.chunk \o batch_rows]
    /\ batch_start' = batch_start + pargs.batch_size
    /\ UNCHANGED <<ppc, pargs, rows, pout>>
    /\ UNCHANGED nonPipeVars

\* lines 84-86: one pass of the loop, chunk_table.insert raises
BatchInsertRaises ==
    /\ ppc = "batches"
    /\ batch_start < Len(rows)
    /\ LET batch_rows == BatchRows(rows, batch_start, pargs.batch_size) IN
       calls' = Append(calls, Call("chunk_table", "insert", batch_rows, TRUE))
    /\ ppc' = AfterInsertError(UpstreamError).ppc
    /\ pout' = AfterInsertError(UpstreamError).pout
    /\ batch_start' = batch_start + pargs.batch_size
    /\ UNCHANGED <<pargs, rows, stored>>
    /\ UNCHANGED nonPipeVars

\* line 84: the range is exhausted, ingest_doc returns None
IngestReturns ==
    /\ ppc = "batches"
    /\ batch_start >= Len(rows)
    /\ ppc' = "returned"
    /\ pout' = PipeReturned
    /\ UNCHANGED <<pargs, calls, rows, batch_start, stored>>
    /\ UNCHANGED nonPipeVars

PipeNext ==
    \/ \E op \in SearchOps, contents \in 0..MaxContents,
          request_class \in VectorRequestClasses :
          StartSearch(op, contents, request_class)
    \/ EmbedTextReturns
    \/ EmbedTextRaises
    \/ CheckRequest
    \/ TableSearchReturns
    \/ TableSearchRaises
    \/ \E chunks \in 0..MaxChunks, batch_size \in 1..MaxBatchSize,
          missing \in {{}, {"embedder"}, {"meta_table", "chunk_table"}} :
          StartIngest(chunks, batch_size, missing)
    \/ MetaInsertReturns
    \/ MetaInsertRaises
    \/ ProcessDocReturns
    \/ ProcessDocRaises
    \/ EmbeddingReturns
    \/ EmbeddingRaises
    \/ BatchInsertReturns
    \/ BatchInsertRaises
    \/ IngestReturns

(***************************************************************************)
(* Schema objects and their wire form (model/schema.py, model/table.py,    *)
(* model/database.py).  In this part a Python value carries its type:      *)
(* Str, Num (int), Bool, List, Dict, or the member of an enumeration; orjson     *)
(* writes an enumeration member as its value, and what comes back from the *)
(* server is a str.                                                        *)
(***************************************************************************)
Num(n) == [type |-> "int", v |-> n]
Bool(b) == [type |-> "bool", v |-> b]
List(s) == [type |-> "list", v |-> s]
EnumMember(class, value) == [type |-> class, v |-> value]

EnumClasses == {"FieldType", "IndexType", "MetricType", "PartitionType", "TableState",
                "IndexState", "AutoBuildPolicyType"}

\* the values of the enumerations of model/enum.py
MetricTypeValues == {"L2", "IP", "COSINE"}
TableStateValues == {"CREATING", "NORMAL", "DELETING"}
IndexStateValues == {"BUILDING", "NORMAL"}

\* getattr(Enum, name, None): the member of that name (every member of these
\* enumerations is named as its value), or None
GetAttr(class, values, name) ==
    IF name.type = "str" /\ name.v \in values THEN Some(EnumMember(class, name.v)) ELSE None

\* orjson.dumps followed by the server's echo and orjson.loads
RECURSIVE orjson_dumps(_)
orjson_dumps(x) ==
    CASE x.type = "dict" -> Dict([k \in DOMAIN x.v |-> orjson_dumps(x.v[k])])
      [] x.type = "list" -> List([i \in DOMAIN x.v |-> orjson_dumps(x.v[i])])
      [] x.type \in EnumClasses -> Str(x.v)
      [] OTHER -> x

\* `if cond: d[k] = v` on a Dict
DictPutIf(d, cond, k, v) == IF cond THEN Dict(Put(d.v, k, v)) ELSE d

\* Partition.__init__, Partition.to_dict (table.py)
Partition(partition_num) ==
    [partition_num |-> partition_num,
     partition_type |-> EnumMember("PartitionType", "HASH")]

Partition_to_dict(self) ==
    Dict(("partitionType" :> self.partition_type) @@ ("partitionNum" :> self.partition_num))

\* Field.__init__ (schema.py)
Field(field_name, field_type, args) ==
    [field_name |-> field_name, field_type |-> field_type,
     primary_key |-> Arg(args, "primary_key", Bool(FALSE)),
     partition_key |-> Arg(args, "partition_key", Bool(FALSE)),
     auto_increment |-> Arg(args, "auto_increment", Bool(FALSE)),
     not_null |-> Arg(args, "not_null", Bool(FALSE)),
     dimension |-> Arg(args, "dimension", Num(0))]

\* Field.to_dict
Field_to_dict(self) ==
    DictPutIf(
      DictPutIf(
        DictPutIf(
          DictPutIf(
            Dict(("fieldName" :> self.field_name) @@ ("fieldType" :> self.field_type)
                 @@ ("notNull" :> self.not_null)),
            self.primary_key.v, "primaryKey", Bool(TRUE)),
          self.partition_key.v, "partitionKey", Bool(TRUE)),
        self.auto_increment.v, "autoIncrement", Bool(TRUE)),
      self.dimension.v > 0, "dimension", self.dimension)

\* the params objects share one shape; an attribute a class does not have is None
Params(class, m, ef_construction, NSQ, samplerate, coarseClusterCount, fineClusterCount) ==
    [class |-> class, m |-> m, ef_construction |-> ef_construction, NSQ |-> NSQ,
     samplerate |-> samplerate, coarseClusterCount |-> coarseClusterCount,
     fineClusterCount |-> fineClusterCount, analyzer |-> None, parse_mode |-> None]

HNSWParams(m, efconstruction) ==
    Params("HNSWParams", Some(m), Some(efconstruction), None, None, None, None)

HNSWPQParams(m, efconstruction, NSQ, samplerate) ==
    Params("HNSWPQParams", Some(m), Some(efconstruction), Some(NSQ), Some(samplerate),
           None, None)

PUCKParams(coarseClusterCount, fineClusterCount) ==
    Params("PUCKParams", None, None, None, None,
           Some(coarseClusterCount), Some(fineClusterCount))

\* HNSWParams.to_dict, HNSWPQParams.to_dict, PUCKParams.to_dict
Params_to_dict(self) ==
    CASE self.class = "HNSWParams" ->
             Dict(("M" :> self.m[1]) @@ ("efConstruction" :> self.ef_construction[1]))
      [] self.class = "HNSWPQParams" ->
             Dict(("M" :> self.m[1]) @@ ("efConstruction" :> self.ef_construction[1])
                  @@ ("NSQ" :> self.NSQ[1]) @@ ("sampleRate" :> self.samplerate[1]))
      [] self.class = "PUCKParams" ->
             Dict(("coarseClusterCount" :> self.coarseClusterCount[1])
                  @@ ("fineClusterCount" :> self.fineClusterCount[1]))

\* the policy objects share one shape
AutoBuildPolicy(class, timing, period_s, row_count_increment, row_count_increment_ratio) ==
    [class |-> class, timing |-> timing, period_s |-> period_s,
     row_count_increment |-> row_count_increment,
     row_count_increment_ratio |-> row_count_increment_ratio]

\* AutoBuildTiming.to_dict, AutoBuildPeriodical.to_dict,
\* AutoBuildRowCountIncrement.to_dict
AutoBuildPolicy_to_dict(self) ==
    CASE self.class = "AutoBuildTiming" ->
             Dict(("policyType" :> EnumMember("AutoBuildPolicyType", "TIMING"))
                  @@ ("timing" :> self.timing))
      [] self.class = "AutoBuildPeriodical" ->
             DictPutIf(Dict(("policyType" :> EnumMember("AutoBuildPolicyType", "PERIODICAL"))
                            @@ ("periodInSecond" :> self.period_s[1])),
                       self.timing # Str(""), "timing", self.timing)
      [] self.class = "AutoBuildRowCountIncrement" ->
             DictPutIf(
               DictPutIf(
                 Dict("policyType" :> EnumMember("AutoBuildPolicyType", "ROW_COUNT_INCREMENT")),
                 self.row_count_increment[1] # Num(0), "rowCountIncrement",
                 self.row_count_increment[1]),
               self.row_count_increment_ratio[1] # Num(0), "rowCountIncrementRatio",
               self.row_count_increment_ratio[1])

\* the index objects share one shape; an attribute a class does not have is None
IndexObject(class, index_name, index_type, field, metric_type, params, auto_build, auto_build_index_policy, state) ==
    [class |-> class, index_name |-> index_name, index_type |-> index_type,
     field |-> field, fields |-> None, metric_type |-> metric_type, params |-> params,
     auto_build |-> auto_build, auto_build_index_policy |-> auto_build_index_policy,
     state |-> state]

\* VectorIndex.__init__: metric_type, params, the policy and state may be
\* None; the policy is kept only if auto_build is true
VectorIndex(index_name, index_type, field, metric_type, args) ==
    LET auto_build == Arg(args, "auto_build", Bool(FALSE)) IN
    IndexObject("VectorIndex", index_name, index_type, field, metric_type,
                Arg(args, "params", None), Some(auto_build),
                IF auto_build.v THEN Arg(args, "auto_build_index_policy", None) ELSE None,
                Arg(args, "state", None))

\* SecondaryIndex.__init__
SecondaryIndex(index_name, field) ==
    IndexObject("SecondaryIndex", index_name, EnumMember("IndexType", "SECONDARY"),
                field, None, None, None, None, None)

\* VectorIndex.to_dict, SecondaryIndex.to_dict
Index_to_dict(self) ==
    IF self.class = "VectorIndex"
        THEN DictPutIf(
               DictPutIf(
                 DictPutIf(
                   Dict(("indexName" :> self.index_name) @@ ("indexType" :> self.index_type)
                        @@ ("field" :> self.field) @@ ("metricType" :> self.metric_type[1])
                        @@ ("autoBuild" :> self.auto_build[1])),
                   self.params # None, "params",
                   IF self.params # None THEN Params_to_dict(self.params[1]) ELSE Dict(<<>>)),
                 self.state # None, "state",
                 IF self.state # None THEN self.state[1] ELSE Str("")),
               self.auto_build_index_policy # None, "autoBuildPolicy",
               IF self.auto_build_index_policy # None
                   THEN AutoBuildPolicy_to_dict(self.auto_build_index_policy[1])
                   ELSE Dict(<<>>))
        ELSE Dict(("indexName" :> self.index_name) @@ ("indexType" :> self.index_type)
                  @@ ("field" :> self.field))

\* Schema.__init__, Schema.to_dict, with a list of indexes
Schema(fields, indexes) == [fields |-> fields, indexes |-> indexes]

Schema_to_dict(self) ==
    Dict(("fields" :> List([i \in DOMAIN self.fields |-> Field_to_dict(self.fields[i])]))
         @@ ("indexes" :> List([i \in DOMAIN self.indexes |->
                                    Index_to_dict(self.indexes[i])])))

\* Table.__init__ (table.py lines 442-464)
Table(name, replication, partition, schema, enable_dynamic_field, description, kwargs) ==
    [table_name |-> name, replication |-> replication, partition |-> partition,
     schema |-> schema, enable_dynamic_field |-> enable_dynamic_field,
     description |-> description,
     create_time |-> Arg(kwargs, "create_time", Str("")),
     state |-> Arg(kwargs, "state", None),
     aliases |-> Arg(kwargs, "aliases", List(<<>>))]

\* Database.create_table, lines 150-161: the body
create_table_body(table_name, replication, partition, schema, enable_dynamic_field, description) ==
    DictPutIf(
        Dict(("database" :> Str("db1")) @@ ("table" :> table_name)
             @@ ("replication" :> replication)
             @@ ("partition" :> Partition_to_dict(partition))
             @@ ("schema" :> Schema_to_dict(schema))
             @@ ("enableDynamicField" :> enable_dynamic_field)),
        description # None, "description",
        IF description # None THEN description[1] ELSE Str(""))

\* Database.create_table, lines 177-180: the Table it returns
create_table(table_name, replication, partition, schema, enable_dynamic_field, description) ==
    Table(table_name, replication, partition, schema, enable_dynamic_field,
          description, <<>>)

KeyError(key) == Exc("KeyError", <<key>>)

\* d[k] if k in d else default
GetOr(d, k, default) == IF k \in DOMAIN d.v THEN d.v[k] ELSE default

\* database.py lines 238-260: the Field built from one entry of schema.fields
describe_field(field) ==
    [field_name |-> field.v["fieldName"], field_type |-> field.v["fieldType"],
     primary_key |-> GetOr(field, "primaryKey", Bool(FALSE)),
     partition_key |-> GetOr(field, "partitionKey", Bool(FALSE)),
     auto_increment |-> GetOr(field, "autoIncrement", Bool(FALSE)),
     not_null |-> GetOr(field, "notNull", Bool(FALSE)),
     dimension |-> GetOr(field, "dimension", Num(0))]

\* database.py lines 264-294: the index built from one entry of
\* schema.indexes, or the ClientError raised for it
describe_table_index(index) ==
    LET t == index.v["indexType"]
        metric == GetAttr("MetricType", MetricTypeValues, index.v["metricType"])
        vector(params) ==
            Returned(VectorIndex(index.v["indexName"], EnumMember("IndexType", t.v),
                                 index.v["field"], metric,
                                 ("params" :> params)
                                 @@ ("auto_build" :> index.v["autoBuild"])))
    IN CASE t = Str("HNSW") ->
                vector(Some(HNSWParams(index.v["params"].v["M"],
                                       index.v["params"].v["efConstruction"])))
         [] t = Str("FLAT") -> vector(None)
         [] t = Str("PUCK") ->
                vector(Some(PUCKParams(index.v["params"].v["coarseClusterCount"],
                                       index.v["params"].v["fineClusterCount"])))
         [] t = Str("SECONDARY") ->
                Returned(SecondaryIndex(index.v["indexName"], index.v["field"]))
         [] OTHER -> Raised(ClientError(<<"not supported index type:", t.v>>))

\* database.py lines 262-294: the loop over schema.indexes
RECURSIVE describe_table_indexes(_, _, _)
describe_table_indexes(entries, i, acc) ==
    IF i > Len(entries) THEN Returned(acc)
    ELSE LET one == describe_table_index(entries[i]) IN
         IF one.exc # None THEN one
         ELSE describe_table_indexes(entries, i + 1, Append(acc, one.ret[1]))

\* Database.describe_table from `table = response.table` on (lines 233-306)
describe_table(table_name, tbl) ==
    LET partition == Partition(tbl.v["partition"].v["partitionNum"])
        fields == [i \in DOMAIN tbl.v["schema"].v["fields"].v |->
                      describe_field(tbl.v["schema"].v["fields"].v[i])]
        indexes == describe_table_indexes(tbl.v["schema"].v["indexes"].v, 1, <<>>)
    IN IF indexes.exc # None THEN indexes
       ELSE IF "description" \notin DOMAIN tbl.v THEN Raised(KeyError("description"))
       ELSE Returned(Table(table_name, tbl.v["replication"], partition,
                           Schema(fields, indexes.ret[1]),
                           GetOr(tbl, "enableDynamicField", Bool(FALSE)),
                           Some(tbl.v["description"]),
                           ("create_time" :> tbl.v["createTime"])
                           @@ ("state" :> GetAttr("TableState", TableStateValues,
                                                  tbl.v["state"]))
                           @@ ("aliases" :> tbl.v["aliases"])))

\* the enumerations of the inverted index
InvertedIndexAnalyzerNames == {"ENGLISH_ANALYZER", "CHINESE_ANALYZER", "DEFAULT_ANALYZER"}
InvertedIndexParseModeNames == {"COARSE_MODE", "FINE_MODE"}

\* IndexType.INVERTED_INDEX.value
INVERTED_INDEX == "INVERTED"

\* getattr(Enum, name, None) for an enumeration looked up by member name
GetAttrByName(class, names, name) ==
    IF name.type = "str" /\ name.v \in names THEN Some(EnumMember(class, name.v)) ELSE None

InvertedIndexParams(analyzer, parse_mode) ==
    [Params("InvertedIndexParams", None, None, None, None, None, None)
        EXCEPT !.analyzer = analyzer, !.parse_mode = parse_mode]

InvertedIndex(index_name, fields, params) ==
    [IndexObject("InvertedIndex", index_name, EnumMember("IndexType", INVERTED_INDEX),
                 None, None, Some(params), None, None, None)
        EXCEPT !.fields = Some(fields)]

\* str.upper on the policy names the server may send
upper(s) ==
    CASE s = "timing" -> "TIMING"
      [] s = "periodical" -> "PERIODICAL"
      [] s = "row_count_increment" -> "ROW_COUNT_INCREMENT"
      [] OTHER -> s

\* AutoBuildTool.get_auto_build_index_policy (schema.py lines 84-102)
get_auto_build_index_policy(d) ==
    IF "policyType" \notin DOMAIN d.v THEN None
    ELSE CASE upper(d.v["policyType"].v) = "TIMING" ->
                  Some(AutoBuildPolicy("AutoBuildTiming", d.v["timing"], None, None, None))
           [] upper(d.v["policyType"].v) = "PERIODICAL" ->
                  Some(AutoBuildPolicy("AutoBuildPeriodical",
                                       GetOr(d, "timing", Str("")),
                                       Some(d.v["periodInSecond"]), None, None))
           [] upper(d.v["policyType"].v) = "ROW_COUNT_INCREMENT" ->
                  Some(AutoBuildPolicy("AutoBuildRowCountIncrement", Str(""), None,
                                       Some(GetOr(d, "rowCountIncrement", Num(0))),
                                       Some(GetOr(d, "rowCountIncrementRatio", Num(0)))))
           [] OTHER -> None

describe_index_falls_back_to_secondary(index) ==
    Returned(SecondaryIndex(index.v["indexName"], Str("unknown")))

\* Table.describe_index from `index = response.index` on (table.py lines
\* 1025-1084): the index object it returns, or the ClientError it raises
describe_index(index) ==
    LET t == index.v["indexType"]
        auto_build_index_policy ==
            IF "autoBuildPolicy" \in DOMAIN index.v
                THEN get_auto_build_index_policy(index.v["autoBuildPolicy"])
                ELSE None
        vector(params) ==
            Returned(VectorIndex(
                index.v["indexName"], EnumMember("IndexType", t.v), index.v["field"],
                GetAttr("MetricType", MetricTypeValues, index.v["metricType"]),
                ("params" :> params)
                @@ ("auto_build" :> index.v["autoBuild"])
                @@ ("auto_build_index_policy" :> auto_build_index_policy)
                @@ ("state" :> GetAttr("IndexState", IndexStateValues, index.v["state"]))))
    IN CASE t = Str("HNSW") ->
                vector(Some(HNSWParams(index.v["params"].v["M"],
                                       index.v["params"].v["efConstruction"])))
         [] t = Str("HNSWPQ") ->
                vector(Some(HNSWPQParams(index.v["params"].v["M"],
                                         index.v["params"].v["efConstruction"],
                                         index.v["params"].v["NSQ"],
                                         index.v["params"].v["sampleRate"])))
         [] t = Str("FLAT") -> vector(None)
         [] t = Str("PUCK") ->
                vector(Some(PUCKParams(index.v["params"].v["coarseClusterCount"],
                                       index.v["params"].v["fineClusterCount"])))
         [] t = Str("SECONDARY") ->
                Returned(SecondaryIndex(index.v["indexName"], index.v["field"]))
         [] t = Str(INVERTED_INDEX) ->
                Returned(InvertedIndex(
                    index.v["indexName"], index.v["fields"],
                    InvertedIndexParams(
                        GetAttrByName("InvertedIndexAnalyzer", InvertedIndexAnalyzerNames,
                                      index.v["params"].v["analyzer"]),
                        GetAttrByName("InvertedIndexParseMode", InvertedIndexParseModeNames,
                                      index.v["params"].v["parseMode"]))))
         [] OTHER -> Raised(ClientError(<<"not supported index type:", t.v>>))

(***************************************************************************)
(* The tables created and the indexes reported in this model.              *)
(***************************************************************************)
FieldType(v) == EnumMember("FieldType", v)
IndexType(v) == EnumMember("IndexType", v)
MetricType(v) == EnumMember("MetricType", v)

FieldLists ==
    { << Field(Str("id"), FieldType("STRING"),
               ("primary_key" :> Bool(TRUE)) @@ ("partition_key" :> Bool(TRUE))
               @@ ("not_null" :> Bool(TRUE))),
         Field(Str("vector"), FieldType("FLOAT_VECTOR"),
               ("not_null" :> Bool(TRUE)) @@ ("dimension" :> Num(3))) >>,
      << Field(Str("seq"), FieldType("UINT64"),
               ("primary_key" :> Bool(TRUE)) @@ ("partition_key" :> Bool(TRUE))
               @@ ("auto_increment" :> Bool(TRUE)) @@ ("not_null" :> Bool(TRUE))),
         Field(Str("vector"), FieldType("FLOAT_VECTOR"),
               ("not_null" :> Bool(TRUE)) @@ ("dimension" :> Num(3))),
         Field(Str("title"), FieldType("STRING"), <<>>) >> }

CreatedIndexTypes == {"HNSW", "HNSWPQ", "PUCK", "FLAT", "SECONDARY"}

\* an index of the given type, as a caller of create_table builds it
AnIndex(t, index_name) ==
    CASE t = "HNSW" ->
             VectorIndex(Str(index_name), IndexType("HNSW"), Str("vector"),
                         Some(MetricType("L2")),
                         ("params" :> Some(HNSWParams(Num(16), Num(200)))))
      [] t = "HNSWPQ" ->
             VectorIndex(Str(index_name), IndexType("HNSWPQ"), Str("vector"),
                         Some(MetricType("COSINE")),
                         ("params" :> Some(HNSWPQParams(Num(16), Num(200), Num(4), Num(1)))))
      [] t = "PUCK" ->
             VectorIndex(Str(index_name), IndexType("PUCK"), Str("vector"),
                         Some(MetricType("IP")),
                         ("params" :> Some(PUCKParams(Num(8), Num(8))))
                         @@ ("auto_build" :> Bool(TRUE))
                         @@ ("auto_build_index_policy" :>
                                Some(AutoBuildPolicy("AutoBuildPeriodical", Str(""),
                                                     Some(Num(3600)), None, None))))
      [] t = "FLAT" ->
             VectorIndex(Str(index_name), IndexType("FLAT"), Str("vector"),
                         Some(MetricType("IP")), <<>>)
      [] t = "SECONDARY" -> SecondaryIndex(Str(index_name), Str("title"))

MaxIndexes == 2

IndexLists ==
    UNION { { [i \in 1..n |-> AnIndex(ts[i], IF i = 1 THEN "idx_a" ELSE "idx_b")] :
                ts \in [1..n -> CreatedIndexTypes] } : n \in 0..MaxIndexes }

Replications == {Num(1), Num(3)}
PartitionNums == {Num(1), Num(3)}
Descriptions == {None, Some(Str("test table"))}

\* the `table` of the server's answer: the create body as orjson wrote it,
\* plus createTime, state and aliases
echo(body) ==
    Dict(("createTime" :> Str("2024-01-01T00:00:00Z")) @@ ("state" :> Str("NORMAL"))
         @@ ("aliases" :> List(<<>>)) @@ orjson_dumps(body).v)

ReportedTags == {"HNSW", "HNSWPQ", "PUCK", "FLAT", "SECONDARY", INVERTED_INDEX,
                 "IVF", "hnsw", "SECONDARY_INDEX"}

ReportedPolicies ==
    {None,
     Some(Dict(("policyType" :> Str("timing")) @@ ("timing" :> Str("2024-01-01 00:00:00")))),
     Some(Dict(("policyType" :> Str("PERIODICAL")) @@ ("periodInSecond" :> Num(3600))))}

\* the `index` of a describe_index answer with the given tag
ReportedIndex(tag, index_name, metric, auto_build, state, policy) ==
    LET vector(params) ==
            Dict(PutIfNotNone(
                   PutIfNotNone(
                     ("indexName" :> Str(index_name)) @@ ("indexType" :> Str(tag))
                     @@ ("field" :> Str("vector")) @@ ("metricType" :> Str(metric))
                     @@ ("autoBuild" :> Bool(auto_build)) @@ ("state" :> Str(state)),
                     "params", params),
                   "autoBuildPolicy", policy))
    IN CASE tag \in {"HNSW", "IVF", "hnsw"} ->
                vector(Some(Dict(("M" :> Num(16)) @@ ("efConstruction" :> Num(200)))))
         [] tag = "HNSWPQ" ->
                vector(Some(Dict(("M" :> Num(16)) @@ ("efConstruction" :> Num(200))
                                 @@ ("NSQ" :> Num(4)) @@ ("sampleRate" :> Num(1)))))
         [] tag = "PUCK" ->
                vector(Some(Dict(("coarseClusterCount" :> Num(8))
                                 @@ ("fineClusterCount" :> Num(8)))))
         [] tag = "FLAT" -> vector(None)
         [] tag \in {"SECONDARY", "SECONDARY_INDEX"} ->
                Dict(("indexName" :> Str(index_name)) @@ ("indexType" :> Str(tag))
                     @@ ("field" :> Str("title")) @@ ("state" :> Str(state)))
         [] tag = INVERTED_INDEX ->
                Dict(("indexName" :> Str(index_name)) @@ ("indexType" :> Str(tag))
                     @@ ("fields" :> List(<<Str("title")>>)) @@ ("state" :> Str(state))
                     @@ ("params" :> Dict(("analyzer" :> Str("DEFAULT_ANALYZER"))
                                          @@ ("parseMode" :> Str("COARSE_MODE")))))

TblInit ==
    /\ created = None
    /\ echoed = None
    /\ described = None
    /\ reported = None
    /\ index_described = None

\* db.create_table(...) answered by the server with success
CreateTable(replication, partition_num, fields, indexes, enable_dynamic_field, description) ==
    /\ created = None
    /\ reported = None
    /\ LET partition == Partition(partition_num)
           schema == Schema(fields, indexes)
       IN /\ created' = Some(create_table(Str("t1"), replication, partition, schema,
                                           enable_dynamic_field, description))
          /\ echoed' = Some(echo(create_table_body(Str("t1"), replication, partition,
                                                    schema, enable_dynamic_field,
                                                    description)))
    /\ UNCHANGED <<described, reported, index_described>>
    /\ UNCHANGED nonTblVars

\* db.describe_table("t1") answered with the echo
DescribeTable ==
    /\ echoed # None
    /\ described = None
    /\ described' = Some(describe_table(Str("t1"), echoed[1]))
    /\ UNCHANGED <<created, echoed, reported, index_described>>
    /\ UNCHANGED nonTblVars

\* table.describe_index(...) answered by the server with `index`
DescribeIndex(index) ==
    /\ created = None
    /\ reported = None
    /\ reported' = Some(index)
    /\ index_described' = Some(describe_index(index))
    /\ UNCHANGED <<created, echoed, described>>
    /\ UNCHANGED nonTblVars

TableNext ==
    \/ \E replication \in Replications, partition_num \in PartitionNums,
          fields \in FieldLists, indexes \in IndexLists,
          enable_dynamic_field \in {Bool(FALSE), Bool(TRUE)},
          description \in Descriptions :
            CreateTable(replication, partition_num, fields, indexes,
                        enable_dynamic_field, description)
    \/ DescribeTable
    \/ \E tag \in ReportedTags, index_name \in {"idx_a", "idx_b"},
          metric \in MetricTypeValues \cup {"HAMMING"}, auto_build \in BOOLEAN,
          state \in IndexStateValues, policy \in ReportedPolicies :
            DescribeIndex(ReportedIndex(tag, index_name, metric, auto_build, state, policy))

(***************************************************************************)
(* The request of each Database and Table operation (model/database.py,    *)
(* model/table.py): the arguments of conn.send_request.  The keys and      *)
(* values of params carry their Python type; a body is the dict handed to  *)
(* orjson.dumps, or None for a request sent without one.                   *)
(***************************************************************************)
database_name == "db1"
table_name == "t1"

Request(method, uri, params, body) ==
    [http_method |-> method, path |-> uri, params |-> params, body |-> body]

Sent(request) == [request |-> Some(request), exc |-> None]
NotSent(exc) == [request |-> None, exc |-> Some(exc)]

\* RequestType.X.value
RequestType(member) ==
    CASE member = "INSERT" -> "insert"
      [] member = "QUERY" -> "query"
      [] member = "SEARCH" -> "search"
      [] member = "DELETE" -> "delete"
      [] member = "UPDATE" -> "update"
      [] member = "SELECT" -> "select"
      [] member = "BATCH_SEARCH" -> "batchSearch"
      [] member = "ADD_FIELD" -> "addField"
      [] member = "CREATE" -> "create"
      [] member = "MODIFY" -> "modify"
      [] member = "REBUILD" -> "rebuild"
      [] member = "DESC" -> "desc"
      [] member = "STATS" -> "stats"

\* params={bytes(RequestType.X): b''}
TypeParams(member) == (Bytes(RequestType(member)) :> Bytes(""))

\* params={b'name': b''}
LiteralParams(name) == (Bytes(name) :> Bytes(""))

\* the start of every Table body: database and table
TableBody == ("database" :> database_name) @@ ("table" :> table_name)

\* Database.create_database, drop_database, list_databases
create_database_request ==
    Request(POST, "database", LiteralParams("create"), Some("database" :> database_name))

drop_database_request ==
    Request(DELETE, "database", (Bytes("database") :> Str(database_name)), None)

list_databases_request == Request(POST, "database", LiteralParams("list"), None)

\* Database.create_table, drop_table, describe_table, list_table
create_table_request(replication, partition, schema, enable_dynamic_field, description) ==
    Request(POST, "table", LiteralParams("create"),
            Some(create_table_body(Str(table_name), replication, partition, schema,
                                   enable_dynamic_field, description).v))

drop_table_with_discriminator ==
    Request(DELETE, "table", LiteralParams("drop"), None)

drop_table_request ==
    Request(DELETE, "table",
            (Bytes("database") :> Str(database_name)) @@ (Bytes("table") :> Str(table_name)),
            None)

describe_table_request ==
    Request(POST, "table", LiteralParams("desc"), Some(TableBody))

list_table_request ==
    Request(POST, "table", LiteralParams("list"), Some("database" :> database_name))

\* Table.insert, Table.upsert: the key of upsert's params is a str
insert_request(row_list) ==
    Request(POST, "row", TypeParams("INSERT"), Some(Put(TableBody, "rows", row_list)))

upsert_request(row_list) ==
    Request(POST, "row", (Str("upsert") :> Bytes("")), Some(Put(TableBody, "rows", row_list)))

\* the tail shared by query, batch_query, search and batch_search
ReadArgs(body, args) ==
    Put(Put(PutIfNotNone(body, "projections", Arg(args, "projections", None)),
            "retrieveVector", Arg(args, "retrieve_vector", FALSE)),
        "readConsistency", Arg(args, "read_consistency", "EVENTUAL"))

\* Table.query
query_request(primary_key, args) ==
    Request(POST, "row", TypeParams("QUERY"),
            Some(ReadArgs(PutIfNotNone(Put(TableBody, "primaryKey", primary_key),
                                       "partitionKey", Arg(args, "partition_key", None)),
                          args)))

\* Table.batch_query
batch_query_request(keys, args) ==
    Request(POST, "row", LiteralParams("batchQuery"),
            Some(ReadArgs(Put(TableBody, "keys", keys), args)))

\* Table.search and Table.batch_search (deprecated), on anns.to_dict()
search_request(anns, args) ==
    Request(POST, "row", TypeParams("SEARCH"),
            Some(ReadArgs(PutIfNotNone(Put(TableBody, "anns", anns),
                                       "partitionKey", Arg(args, "partition_key", None)),
                          args)))

batch_search_request(anns, args) ==
    Request(POST, "row", TypeParams("BATCH_SEARCH"),
            Some(ReadArgs(PutIfNotNone(Put(TableBody, "anns", anns),
                                       "partitionKey", Arg(args, "partition_key", None)),
                          args)))

\* request.to_dict() and request.type(), by the class of the request
to_dict(request) ==
    CASE request.class = "BM25SearchRequest" -> BM25_to_dict(request)
      [] request.class = "HybridSearchRequest" -> Hybrid_to_dict(request)
      [] OTHER -> Vector_to_dict(request)

type(request) ==
    IF request.class = "VectorBatchSearchRequest" THEN "BATCH_SEARCH" ELSE "SEARCH"

\* Table._search
_search(request, args) ==
    Request(POST, "row", TypeParams(type(request)),
            Some(Put(PutIfNotNone(
                       PutIfNotNone(Put(Put(to_dict(request), "database", database_name),
                                        "table", table_name),
                                    "partitionKey", Arg(args, "partition_key", None)),
                       "projections", Arg(args, "projections", None)),
                     "readConsistency", Arg(args, "read_consistency", "EVENTUAL"))))

\* Table.vector_search, bm25_search, hybrid_search: the isinstance check,
\* then _search
checked_search(classes, request, args) ==
    IF request.class \notin classes
        THEN NotSent(ValueError("wrong type of argument 'request'"))
        ELSE Sent(_search(request, args))

\* Table.delete
delete_request(args) ==
    LET primary_key == Arg(args, "primary_key", None)
        partition_key == Arg(args, "partition_key", None)
        filter == Arg(args, "filter", None)
    IN IF primary_key = None /\ filter = None
           THEN NotSent(ValueError("requiring primary_key or filter"))
       ELSE IF primary_key # None /\ filter # None
           THEN NotSent(ValueError("only one of primary_key and filter should exist"))
       ELSE IF partition_key # None /\ filter # None
           THEN NotSent(ValueError("only one of partition_key and filter should exist"))
       ELSE Sent(Request(POST, "row", TypeParams("DELETE"),
                         Some(PutIfNotNone(
                                PutIfNotNone(
                                  PutIfNotNone(TableBody, "primaryKey", primary_key),
                                  "partitionKey", partition_key),
                                "filter", filter))))

\* Table.update
update_request(args) ==
    LET primary_key == Arg(args, "primary_key", None)
        partition_key == Arg(args, "partition_key", None)
        update_fields == Arg(args, "update_fields", None)
    IN IF primary_key = None /\ update_fields = None
           THEN NotSent(ValueError("requiring primary_key and update_fields"))
       ELSE Sent(Request(POST, "row", TypeParams("UPDATE"),
                         Some(PutIfNotNone(
                                PutIfNotNone(
                                  PutIfNotNone(TableBody, "primaryKey", primary_key),
                                  "partitionKey", partition_key),
                                "update", update_fields))))

\* Table.select
select_request(args) ==
    Request(POST, "row", TypeParams("SELECT"),
            Some(PutIfNotNone(
                   PutIfNotNone(
                     PutIfNotNone(
                       Put(Put(TableBody, "readConsistency",
                               Arg(args, "read_consistency", "EVENTUAL")),
                           "limit", Arg(args, "limit", 10)),
                       "filter", Arg(args, "filter", None)),
                     "marker", Arg(args, "marker", None)),
                   "projections", Arg(args, "projections", None))))

\* Table.add_fields
add_fields_request(schema) ==
    Request(POST, "table", TypeParams("ADD_FIELD"),
            Some(Put(TableBody, "schema", Schema_to_dict(schema))))

\* Table.create_indexes
create_indexes_request(indexes) ==
    IF \E i \in DOMAIN indexes : indexes[i].class # "VectorIndex"
        THEN NotSent(ClientError("not supported index type"))
        ELSE Sent(Request(POST, "index", TypeParams("CREATE"),
                          Some(Put(TableBody, "indexes",
                                   [i \in DOMAIN indexes |-> Index_to_dict(indexes[i])]))))

\* DefaultAutoBuildPolicy (schema.py lines 104-105)
DefaultAutoBuildPeriodical == 24 * 3600
DefaultAutoBuildPolicy ==
    AutoBuildPolicy("AutoBuildPeriodical", Str(""), Some(Num(DefaultAutoBuildPeriodical)),
                    None, None)

\* Table.modify_index
modify_index_request(index_name, auto_build, args) ==
    LET index0 == ("indexName" :> index_name) @@ ("autoBuild" :> auto_build)
        index == IF auto_build
                    THEN Put(index0, "autoBuildPolicy",
                             AutoBuildPolicy_to_dict(
                                 Arg(args, "auto_build_index_policy", DefaultAutoBuildPolicy)))
                    ELSE index0
    IN Request(POST, "index", TypeParams("MODIFY"), Some(Put(TableBody, "index", index)))

\* Table.drop_index, rebuild_index, describe_index, stats
drop_index_request(index_name) ==
    Request(DELETE, "index",
            (Bytes("database") :> Str(database_name)) @@ (Bytes("table") :> Str(table_name))
            @@ (Bytes("indexName") :> Str(index_name)),
            None)

rebuild_index_request(index_name) ==
    Request(POST, "index", TypeParams("REBUILD"), Some(Put(TableBody, "indexName", index_name)))

describe_index_request(index_name) ==
    Request(POST, "index", TypeParams("DESC"), Some(Put(TableBody, "indexName", index_name)))

stats_request == Request(POST, "table", TypeParams("STATS"), Some(TableBody))

(***************************************************************************)
(* The operations called.                                                  *)
(***************************************************************************)
APrimaryKey == "id" :> "0001"
APartitionKey == "id" :> "0001"
Projections == <<"id", "title">>
SomeRows == {<<>>, <<("id" :> "0001") @@ ("title" :> "a")>>}
SomeAnns ==
    ("vectorField" :> "vector") @@ ("vectorFloats" :> AVector)
    @@ ("params" :> ("ef" :> 200) @@ ("limit" :> 10))

ReadKeywordArgs ==
    KeywordArgs(("partition_key" :> {Some(APartitionKey)})
                @@ ("projections" :> {Some(Projections)})
                @@ ("retrieve_vector" :> {TRUE}))

SearchKeywordArgs ==
    KeywordArgs(("partition_key" :> {Some(APartitionKey)})
                @@ ("projections" :> {Some(Projections)}))

AllSearchRequests == VectorRequests \cup BM25Requests \cup HybridRequests

OpsInit ==
    /\ op_called = None
    /\ op_args = <<>>
    /\ op_sent = None

\* one operation called on a Database or a Table with an open connection
\* one operation called on a Database or a Table with an open connection
OperationWith(op, args, result) ==
    /\ op_called = None
    /\ op_called' = Some(op)
    /\ op_args' = args
    /\ op_sent' = Some(result)
    /\ UNCHANGED nonOpsVars

\* an operation called without keyword arguments
Operation(op, result) == OperationWith(op, <<>>, result)

DatabaseOperation ==
    \/ Operation("create_database", Sent(create_database_request))
    \/ Operation("drop_database", Sent(drop_database_request))
    \/ Operation("list_databases", Sent(list_databases_request))
    \/ \E fields \in FieldLists, indexes \in IndexLists, description \in Descriptions :
          Operation("create_table",
                    Sent(create_table_request(Num(3), Partition(Num(1)),
                                              Schema(fields, indexes), Bool(FALSE),
                                              description)))
    \/ Operation("drop_table", Sent(drop_table_request))
    \/ Operation("describe_table", Sent(describe_table_request))
    \/ Operation("list_table", Sent(list_table_request))

RowOperation ==
    \/ \E row_list \in SomeRows : Operation("insert", Sent(insert_request(row_list)))
    \/ \E row_list \in SomeRows : Operation("upsert", Sent(upsert_request(row_list)))
    \/ \E args \in ReadKeywordArgs : OperationWith("query", args, Sent(query_request(APrimaryKey, args)))
    \/ \E args \in ReadKeywordArgs :
          OperationWith("batch_query", args,
                    Sent(batch_query_request(<<"primaryKey" :> APrimaryKey>>, args)))
    \/ \E args \in ReadKeywordArgs : OperationWith("search", args, Sent(search_request(SomeAnns, args)))
    \/ \E args \in ReadKeywordArgs :
          OperationWith("batch_search", args, Sent(batch_search_request(SomeAnns, args)))
    \/ \E args \in KeywordArgs(("primary_key" :> {Some(APrimaryKey)})
                               @@ ("partition_key" :> {Some(APartitionKey)})
                               @@ ("filter" :> {Some("title = 'a'")})) :
          OperationWith("delete", args, delete_request(args))
    \/ \E args \in KeywordArgs(("primary_key" :> {Some(APrimaryKey)})
                               @@ ("partition_key" :> {Some(APartitionKey)})
                               @@ ("update_fields" :> {Some("title" :> "b")})) :
          OperationWith("update", args, update_request(args))
    \/ \E args \in KeywordArgs(("filter" :> {Some("title = 'a'")})
                               @@ ("marker" :> {Some(APrimaryKey)})
                               @@ ("projections" :> {Some(Projections)})
                               @@ ("limit" :> {20})) :
          OperationWith("select", args, Sent(select_request(args)))

SearchOperation ==
    \/ \E request \in AllSearchRequests, args \in SearchKeywordArgs :
          OperationWith("vector_search", ("request" :> request) @@ args,
                        checked_search(VectorRequestClasses, request, args))
    \/ \E request \in AllSearchRequests, args \in SearchKeywordArgs :
          OperationWith("bm25_search", ("request" :> request) @@ args,
                        checked_search({"BM25SearchRequest"}, request, args))
    \/ \E request \in AllSearchRequests, args \in SearchKeywordArgs :
          OperationWith("hybrid_search", ("request" :> request) @@ args,
                        checked_search({"HybridSearchRequest"}, request, args))

SchemaOperation ==
    \/ \E fields \in FieldLists :
          Operation("add_fields", Sent(add_fields_request(Schema(fields, <<>>))))
    \/ \E indexes \in IndexLists : Operation("create_indexes", create_indexes_request(indexes))
    \/ \E auto_build \in BOOLEAN,
          args \in KeywordArgs("auto_build_index_policy" :>
                                  {AutoBuildPolicy("AutoBuildTiming",
                                                   Str("2024-01-01 00:00:00"),
                                                   None, None, None)}) :
          OperationWith("modify_index", args, Sent(modify_index_request("idx_a", auto_build, args)))
    \/ Operation("drop_index", Sent(drop_index_request("idx_a")))
    \/ Operation("rebuild_index", Sent(rebuild_index_request("idx_a")))
    \/ Operation("describe_index", Sent(describe_index_request("idx_a")))
    \/ Operation("stats", Sent(stats_request))

OpsNext == DatabaseOperation \/ RowOperation \/ SearchOperation \/ SchemaOperation

(***************************************************************************)
(* The request body across the attempts of _send_request (http_client.py   *)
(* lines 163-176 and 195-267).  A body is bytes, a file object (it has     *)
(* tell and seek) or a stream without them; session.post/delete reads a    *)
(* file or a stream from its position, up to some later position.          *)
(***************************************************************************)
\* the length of the file or stream
BodyLen == 3

BodyObject(kind, position) == [kind |-> kind, position |-> position]

\* hasattr(body, "tell") and hasattr(body, "seek")
Seekable(body) == body.kind = "file"

Bodies3 ==
    {BodyObject("bytes", 0)}
    \cup {BodyObject(k, p) : k \in {"file", "stream"}, p \in 0..(BodyLen - 1)}

FpInit ==
    /\ fp_pc = "idle"
    /\ fp = BodyObject("bytes", 0)
    /\ offset = None
    /\ fp_retries = 0
    /\ fp_policy = [max_error_retry |-> 0]
    /\ read_from = <<>>

\* lines 163-176: Content-Length, then `offset = body.tell()` for a body
\* with tell and seek; retries_attempted = 0
BodyStart(body, policy, content_length_given) ==
    /\ fp_pc = "idle"
    /\ fp' = body
    /\ fp_policy' = policy
    /\ fp_retries' = 0
    /\ read_from' = <<>>
    /\ IF body.kind # "bytes" /\ ~content_length_given
          THEN fp_pc' = "raised" /\ offset' = None
          ELSE /\ fp_pc' = "loop"
               /\ offset' = IF Seekable(body) THEN Some(body.position) ELSE None
    /\ UNCHANGED nonFpVars

SeekBeforeDispatch_never(body, attempted, off) == body

\* lines 206-207: `if retries_attempted > 0 and offset is not None:
\* body.seek(offset)`
SeekBeforeDispatch(body, attempted, off) ==
    IF attempted > 0 /\ off # None THEN [body EXCEPT !.position = off[1]] ELSE body

\* lines 206-249: seek, then session.post/delete reads the body up to
\* `upto` and returns a response the handlers accept, or fails
BodyDispatch(upto, fails) ==
    /\ fp_pc = "loop"
    /\ LET body == SeekBeforeDispatch(fp, fp_retries, offset) IN
       /\ upto >= body.position
       /\ body.kind = "bytes" => upto = 0
       /\ read_from' = Append(read_from, body.position)
       /\ fp' = [body EXCEPT !.position = upto]
    /\ fp_pc' = IF fails THEN "except" ELSE "returned"
    /\ UNCHANGED <<offset, fp_retries, fp_policy>>
    /\ UNCHANGED nonFpVars

\* lines 250-267: should_retry, then sleep and count the retry, or raise
BodyExcept ==
    /\ fp_pc = "except"
    /\ \E answer \in should_retry(fp_policy, ConnectionError, fp_retries) :
          IF answer
              THEN fp_pc' = "loop" /\ fp_retries' = fp_retries + 1
              ELSE fp_pc' = "raised" /\ UNCHANGED fp_retries
    /\ UNCHANGED <<fp, offset, fp_policy, read_from>>
    /\ UNCHANGED nonFpVars

FpNext ==
    \/ \E body \in Bodies3, policy \in RetryPolicies, content_length_given \in BOOLEAN :
          BodyStart(body, policy, content_length_given)
    \/ \E upto \in 0..BodyLen, fails \in BOOLEAN : BodyDispatch(upto, fails)
    \/ BodyExcept

(***************************************************************************)
(* Closing the client.  MochowClient owns one HTTPClient; every Database   *)
(* and Table handle stores a reference to that object at construction.    *)
(***************************************************************************)
\* the HTTPClient object created by MochowClient.__init__
TheHTTPClient == "HTTPClient"

\* Database.__init__ / Table.__init__: the handle keeps the conn it is given
Handle(conn) == [conn |-> conn]

\* the guard opening every Database and Table operation:
\*   if not self.conn: raise ClientError(message='conn is closed')
\* followed by self.conn.send_request(...), which dispatches on the session.
\* requests.Session.close() only drops pooled connections, the session still
\* dispatches, so the outcome is a response or a transport error.
guarded(conn, transport) == IF conn = None THEN Raised(ClientError("conn is closed")) ELSE IF transport = "response" THEN Returned("dispatched") ELSE Raised(Exc("ConnectionError", "dispatched"))

TransportOutcomes == {"response", "error"}

\* did the call put a request on the network
OnTheNetwork(result) == result.ret = Some("dispatched") \/ (result.exc # None /\ result.exc[1].type = "ConnectionError")

ClientOperations == {"create_database", "list_databases", "database", "drop_database"}
DatabaseOperations == {"drop_database", "list_databases", "create_table", "drop_table", "describe_table", "table", "list_table"}
TableOperations == {"insert", "upsert", "query", "batch_query", "select", "delete", "update", "vector_search", "bm25_search", "hybrid_search", "search_iterator", "add_fields", "create_indexes", "modify_index", "drop_index", "rebuild_index", "describe_index", "stats"}

CloseInit ==
    /\ client_conn = Some(TheHTTPClient)
    /\ session = "open"
    /\ database_handle = None
    /\ table_handle = None
    /\ closed = FALSE
    /\ last_call = None

\* MochowClient.create_database / list_databases / database / drop_database:
\* each builds Database(conn=self._conn, ...) and calls an operation on it;
\* create_database and database hand the Database to the caller.
ClientOperation(op, transport) ==
    LET h == Handle(client_conn)
        result == guarded(h.conn, transport)
    IN /\ op \in ClientOperations
       /\ last_call' = Some([on |-> "client", op |-> op, after_close |-> closed, result |-> result])
       /\ database_handle' = IF result.ret # None /\ op \in {"create_database", "database"} THEN Some(h) ELSE database_handle
       /\ UNCHANGED <<client_conn, session, table_handle, closed>>
       /\ UNCHANGED nonCloseVars

\* an operation on a Database handle; create_table, describe_table and table
\* return Table(db=self, ...), whose _conn is db.conn
DatabaseHandleOperation(op, transport) ==
    /\ database_handle # None
    /\ op \in DatabaseOperations
    /\ LET h == database_handle[1]
           result == guarded(h.conn, transport)
       IN /\ last_call' = Some([on |-> "database", op |-> op, after_close |-> closed, result |-> result])
          /\ table_handle' = IF result.ret # None /\ op \in {"create_table", "describe_table", "table"} THEN Some(Handle(h.conn)) ELSE table_handle
    /\ UNCHANGED <<client_conn, session, database_handle, closed>>
    /\ UNCHANGED nonCloseVars

\* an operation on a Table handle
TableHandleOperation(op, transport) ==
    /\ table_handle # None
    /\ op \in TableOperations
    /\ LET result == guarded(table_handle[1].conn, transport)
       IN last_call' = Some([on |-> "table", op |-> op, after_close |-> closed, result |-> result])
    /\ UNCHANGED <<client_conn, session, database_handle, table_handle, closed>>
    /\ UNCHANGED nonCloseVars

\* MochowClient.close(): if self._conn: self._conn.close(); self._conn = None
\* HTTPClient.close(): self.session.close()
Close ==
    /\ client_conn' = None
    /\ session' = IF client_conn # None THEN "closed" ELSE session
    /\ closed' = TRUE
    /\ UNCHANGED <<database_handle, table_handle, last_call>>
    /\ UNCHANGED nonCloseVars

CloseNext ==
    \/ \E op \in ClientOperations, t \in TransportOutcomes : ClientOperation(op, t)
    \/ \E op \in DatabaseOperations, t \in TransportOutcomes : DatabaseHandleOperation(op, t)
    \/ \E op \in TableOperations, t \in TransportOutcomes : TableHandleOperation(op, t)
    \/ Close

(***************************************************************************)
(* The caller's loop after create_table (example.py, create_db_and_table): *)
(*   while True: table = db.describe_table(name)                           *)
(*               if table.state == TableState.NORMAL: break                *)
(***************************************************************************)
MaxCreating == 2

\* the server's answer to a desc request while the table is in `state`
answer_in_state(tbl, state) == Dict([tbl.v EXCEPT !["state"] = Str(state)])

\* table.state == TableState.NORMAL
state_is_normal(t) == t.state = Some(EnumMember("TableState", "NORMAL"))

PollInit ==
    /\ server_table = None
    /\ creating_left = 0
    /\ poll_pc = "idle"
    /\ poll_requests = 0
    /\ poll_table = None

\* db.create_table(...) accepted; the server will report CREATING for
\* `creating` desc requests and NORMAL afterwards
PollCreateTable(fields, indexes, description, creating) ==
    /\ poll_pc = "idle"
    /\ LET partition == Partition(Num(1))
           schema == Schema(fields, indexes)
       IN server_table' = Some(echo(create_table_body(Str("t1"), Num(3), partition, schema, Bool(FALSE), description)))
    /\ creating_left' = creating
    /\ poll_pc' = "loop"
    /\ UNCHANGED <<poll_requests, poll_table>>
    /\ UNCHANGED nonPollVars

\* one turn of the loop: describe_table sends one desc request and builds
\* the Table from that response alone; the loop leaves when the state is NORMAL
PollDescribeTable ==
    /\ poll_pc = "loop"
    /\ LET response == answer_in_state(server_table[1], IF creating_left > 0 THEN "CREATING" ELSE "NORMAL")
           result == describe_table(Str("t1"), response)
       IN /\ poll_table' = Some(result)
          /\ poll_pc' = IF result.exc # None THEN "raised" ELSE IF state_is_normal(result.ret[1]) THEN "done" ELSE "loop"
    /\ poll_requests' = poll_requests + 1
    /\ creating_left' = IF creating_left > 0 THEN creating_left - 1 ELSE 0
    /\ UNCHANGED server_table
    /\ UNCHANGED nonPollVars

PollNext ==
    \/ \E fields \in FieldLists, indexes \in IndexLists, description \in Descriptions \ {None}, creating \in 0..MaxCreating : PollCreateTable(fields, indexes, description, creating)
    \/ PollDescribeTable

(***************************************************************************)
(* LocalDocumentHub (ai/dochub/local_dochub.py) over a filesystem.  A path *)
(* string "/c1/c2" is the sequence <<c1, c2>>; a trailing slash is an      *)
(* empty last component, "/" is <<"">>.  A file or directory is named by   *)
(* the sequence of its non-empty components.                               *)
(***************************************************************************)
\* the node a path string names
resolve(path) == SelectSeq(path, LAMBDA c : c # "")

\* os.path.join(path, name) for a relative name
join(path, name) == (IF path[Len(path)] = "" THEN SubSeq(path, 1, Len(path) - 1) ELSE path) \o name

\* os.path.dirname(path)
dirname(path) == IF Len(path) = 1 THEN <<"">> ELSE SubSeq(path, 1, Len(path) - 1)

\* os.path.basename(path)
basename(path) == path[Len(path)]

exists(fs, path) == resolve(path) \in fs.dirs \cup fs.files
isdir(fs, path) == resolve(path) \in fs.dirs

\* os.listdir(path): the entries directly inside the directory
listdir(fs, path) == {q \in fs.dirs \cup fs.files : Len(q) = Len(resolve(path)) + 1 /\ SubSeq(q, 1, Len(q) - 1) = resolve(path)}

Ancestors(node) == {SubSeq(node, 1, k) : k \in 0..Len(node)}

\* os.makedirs(path): every missing directory on the way, or an error when a
\* file is in the way
makedirs(fs, path) == IF Ancestors(resolve(path)) \cap fs.files # {} THEN [fs |-> fs, exc |-> Some(Exc("NotADirectoryError", "makedirs"))] ELSE [fs |-> [fs EXCEPT !.dirs = @ \cup Ancestors(resolve(path))], exc |-> None]

\* shutil.copy(src, dst): into dst when dst is a directory, an error when
\* the parent of dst is not a directory, else dst is created or overwritten
copy(fs, src, dst) ==
    IF isdir(fs, dst) THEN [fs |-> [fs EXCEPT !.files = @ \cup {resolve(dst) \o <<basename(src)>>}], exc |-> None]
    ELSE IF ~isdir(fs, dirname(dst)) THEN [fs |-> fs, exc |-> Some(Exc("NotADirectoryError", "copy"))]
    ELSE [fs |-> [fs EXCEPT !.files = @ \cup {resolve(dst)}], exc |-> None]

_schema == "local://"

Document(doc_name, file_path) == [doc_name |-> doc_name, file_path |-> file_path, uri |-> None]

\* LocalDocumentHub.__init__, lines 37-52
LocalDocumentHub(fs, root_path) ==
    IF root_path.scheme # _schema THEN [fs |-> fs, hub |-> None, exc |-> Some(ValueError("Invalid root_path format"))]
    ELSE LET _root_path == root_path.path
         IN [fs |-> IF ~exists(fs, _root_path) THEN makedirs(fs, _root_path).fs ELSE fs, hub |-> Some([_root_path |-> _root_path]), exc |-> None]

\* LocalDocumentHub.add, lines 54-83
add(self, fs, doc) ==
    IF doc.doc_name = None \/ doc.file_path = None THEN [fs |-> fs, result |-> Raised(ValueError("Document file path or name is not set."))]
    ELSE LET target_path == join(self._root_path, doc.doc_name[1])
             target_dir == dirname(target_path)
             made == IF ~exists(fs, target_dir) THEN makedirs(fs, target_dir) ELSE [fs |-> fs, exc |-> None]
             copied == copy(made.fs, doc.file_path[1], target_path)
         IN IF made.exc # None THEN [fs |-> fs, result |-> Raised(made.exc[1])]
            ELSE IF copied.exc # None THEN [fs |-> made.fs, result |-> Raised(copied.exc[1])]
            ELSE [fs |-> copied.fs, result |-> Returned([doc EXCEPT !.file_path = Some(target_path), !.uri = Some(<<_schema, target_path>>)])]

\* the while loop of remove, lines 97-104
RECURSIVE remove_empty_dirs(_, _, _)
remove_empty_dirs(self, fs, target_dir) ==
    IF target_dir # self._root_path /\ isdir(fs, target_dir) /\ listdir(fs, target_dir) = {}
    THEN remove_empty_dirs(self, [fs EXCEPT !.dirs = @ \ {resolve(target_dir)}], dirname(target_dir))
    ELSE fs

\* LocalDocumentHub.remove, lines 85-107; os.remove refuses a directory
remove(self, fs, doc) ==
    LET target_path == join(self._root_path, doc.doc_name[1])
    IN IF exists(fs, target_path)
       THEN IF isdir(fs, target_path) THEN [fs |-> fs, result |-> Raised(Exc("IsADirectoryError", "remove"))]
            ELSE [fs |-> remove_empty_dirs(self, [fs EXCEPT !.files = @ \ {resolve(target_path)}], dirname(target_path)), result |-> Returned(None)]
       ELSE [fs |-> fs, result |-> Returned(None)]

\* LocalDocumentHub.list, lines 109-134: os.walk visits every file below the
\* root once; doc_name is its path relative to the root
list(self, fs) ==
    LET top == resolve(self._root_path)
    IN { [Document(Some(SubSeq(f, Len(top) + 1, Len(f))), Some(f)) EXCEPT !.uri = Some(<<_schema, f>>)] : f \in {g \in fs.files : Len(g) > Len(top) /\ SubSeq(g, 1, Len(top)) = top} }

\* LocalDocumentHub.load, lines 136-163
load(self, fs, doc) ==
    LET target_path == join(self._root_path, doc.doc_name[1])
    IN IF exists(fs, target_path) THEN Returned(Some([doc EXCEPT !.file_path = Some(target_path), !.uri = Some(<<_schema, target_path>>)])) ELSE Returned(None)

\* DocumentHubEnv.root_path(): a scheme and the path after it, which
\* __init__ makes absolute
RootPaths == {[scheme |-> s, path |-> p] : s \in {"local://", "bos://"}, p \in {<<"data", "hub">>, <<"data", "hub", "">>}}

DocNames == {<<"x.pdf">>, <<"a", "x.pdf">>, <<"a", "b", "y.pdf">>, <<"a">>}
LocalFile == <<".", "test.pdf">>

HubInit ==
    /\ hub = None
    /\ filesystem = [dirs |-> {<<>>, <<"etc">>}, files |-> {}]
    /\ added = {}
    /\ hub_call = None

HubCall(op, doc_name, result) == Some([op |-> op, doc_name |-> doc_name, result |-> result])

HubCreate(root_path) ==
    /\ hub = None
    /\ LET made == LocalDocumentHub(filesystem, root_path)
       IN /\ hub' = made.hub
          /\ filesystem' = made.fs
          /\ hub_call' = HubCall("__init__", None, IF made.exc = None THEN Returned(None) ELSE Raised(made.exc[1]))
    /\ UNCHANGED added
    /\ UNCHANGED nonHubVars

HubAdd(doc_name) ==
    /\ hub # None
    /\ LET done == add(hub[1], filesystem, Document(doc_name, Some(LocalFile)))
       IN /\ filesystem' = done.fs
          /\ hub_call' = HubCall("add", doc_name, done.result)
          /\ added' = IF done.result.exc = None THEN added \cup {doc_name[1]} ELSE added
    /\ UNCHANGED hub
    /\ UNCHANGED nonHubVars

HubRemove(doc_name) ==
    /\ hub # None
    /\ LET done == remove(hub[1], filesystem, Document(Some(doc_name), None))
       IN /\ filesystem' = done.fs
          /\ hub_call' = HubCall("remove", Some(doc_name), done.result)
          /\ added' = IF done.result.exc = None THEN added \ {doc_name} ELSE added
    /\ UNCHANGED hub
    /\ UNCHANGED nonHubVars

HubList ==
    /\ hub # None
    /\ hub_call' = HubCall("list", None, Returned(list(hub[1], filesystem)))
    /\ UNCHANGED <<hub, filesystem, added>>
    /\ UNCHANGED nonHubVars

HubLoad(doc_name) ==
    /\ hub # None
    /\ hub_call' = HubCall("load", Some(doc_name), load(hub[1], filesystem, Document(Some(doc_name), None)))
    /\ UNCHANGED <<hub, filesystem, added>>
    /\ UNCHANGED nonHubVars

HubNext ==
    \/ \E root_path \in RootPaths : HubCreate(root_path)
    \/ \E doc_name \in {Some(n) : n \in DocNames} \cup {None} : HubAdd(doc_name)
    \/ \E doc_name \in DocNames : HubRemove(doc_name)
    \/ HubList
    \/ \E doc_name \in DocNames : HubLoad(doc_name)

(***************************************************************************)
(* Splitting a document into chunks (ai/splitter/langchain_splitter.py,    *)
(* ai/processor/qianfan_doc_processor.py).  The text splitter and the      *)
(* parser are libraries: they hand back the pieces of the document, here   *)
(* the texts "p1", "p2", ... ; chunk ids and times are left out.           *)
(***************************************************************************)
MaxPieces == 4
MaxTake == 4

PieceTexts == <<"p1", "p2", "p3", "p4", "p5", "p6">>

\* text_splitter.split_text(content) / split_result.content['paragraphs']
Pieces(n) == [i \in 1..n |-> PieceTexts[i]]

DocumentChunk(doc_name, sequence_number, content) == [doc_name |-> doc_name, sequence_number |-> sequence_number, content |-> content]

\* the for loop of LangchainDocSplitter.split, lines 90-105: the break
\* compares len(chunks), the number of pieces, with maximum_pages_totake
RECURSIVE split_loop(_, _, _, _)
split_loop(chunks, idx, document_chunks, _maximum_pages_totake) ==
    IF idx >= Len(chunks) THEN document_chunks
    ELSE LET appended == Append(document_chunks, DocumentChunk("doc", idx + 1, chunks[idx + 1]))
         IN IF _maximum_pages_totake # None /\ Len(chunks) >= _maximum_pages_totake[1] THEN appended
            ELSE split_loop(chunks, idx + 1, appended, _maximum_pages_totake)

\* LangchainDocSplitter.split, lines 66-105
split(self, chunks) ==
    IF self._split_mode # "PAGE" THEN Raised(ValueError("Unsupported split mode"))
    ELSE Returned(split_loop(chunks, 0, <<>>, self._maximum_pages_totake))

\* the for loop of QianfanDocProcessor.process_doc, lines 106-118: the break
\* compares len(chunks), the chunks built so far, with maximum_pages_totake
RECURSIVE process_loop(_, _, _, _)
process_loop(paragraphs, i, chunks, _maximum_pages_totake) ==
    IF i > Len(paragraphs) THEN chunks
    ELSE LET appended == Append(chunks, DocumentChunk("doc", i, paragraphs[i]))
         IN IF _maximum_pages_totake # None /\ Len(appended) >= _maximum_pages_totake[1] THEN appended
            ELSE process_loop(paragraphs, i + 1, appended, _maximum_pages_totake)

\* QianfanDocProcessor.process_doc, lines 69-119
process_doc(self, lang, paragraphs) ==
    IF self._split_mode # "PAGE" THEN Raised(ValueError("Unsupported split mode"))
    ELSE IF lang \notin {"ZH", "EN"} THEN Raised(ValueError("Unsupported language"))
    ELSE Returned(process_loop(paragraphs, 1, <<>>, self._maximum_pages_totake))

SplitModes == {"PAGE", "SENTENCE"}
Langs == {"ZH", "EN", "FR"}
PagesToTake == {None} \cup {Some(m) : m \in 1..MaxTake}

SplitInit ==
    /\ split_input = None
    /\ split_output = None
    /\ process_output = None

\* a splitter and a processor built with the same settings, and a document
\* that the library cuts into n pieces
ChooseDocument(n, split_mode, maximum_pages_totake, lang) ==
    /\ split_input = None
    /\ split_input' = Some([self |-> [_split_mode |-> split_mode, _maximum_pages_totake |-> maximum_pages_totake], lang |-> lang, pieces |-> Pieces(n)])
    /\ UNCHANGED <<split_output, process_output>>
    /\ UNCHANGED nonSplitVars

Split ==
    /\ split_input # None
    /\ split_output = None
    /\ split_output' = Some(split(split_input[1].self, split_input[1].pieces))
    /\ UNCHANGED <<split_input, process_output>>
    /\ UNCHANGED nonSplitVars

ProcessDoc ==
    /\ split_input # None
    /\ process_output = None
    /\ process_output' = Some(process_doc(split_input[1].self, split_input[1].lang, split_input[1].pieces))
    /\ UNCHANGED <<split_input, split_output>>
    /\ UNCHANGED nonSplitVars

SplitNext ==
    \/ \E n \in 0..MaxPieces, split_mode \in SplitModes, maximum_pages_totake \in PagesToTake, lang \in Langs : ChooseDocument(n, split_mode, maximum_pages_totake, lang)
    \/ Split
    \/ ProcessDoc

CfgNext ==
    \/ NewClientDefault
    \/ \E args \in ArgsOver("client", ClientParams) : NewClientCopy(args)
    \/ \E level \in Levels : CallWithoutConfig(level)
    \/ \E level \in Levels, args \in ArgsOver("call", CallParams) : CallCopy(level, args)
    \/ Merge

HttpNext ==
    \/ \E method \in Methods, cred \in CredentialsSet, policy \in RetryPolicies,
          body \in {None, Some("bytes")} :
          SendRequest(method, [credentials |-> cred, retry_policy |-> policy], body)
    \/ AttemptUnsupported
    \/ AttemptTransportError
    \/ \E resp \in Responses : AttemptResponse(resp)
    \/ Except
    \/ Sleep
    \/ Raise
    \/ Done

Init == HttpInit /\ CfgInit /\ SignInit /\ SearchInit /\ PipeInit /\ TblInit /\ OpsInit /\ FpInit /\ CloseInit /\ PollInit /\ HubInit /\ SplitInit

\* the transport: send_request calls, one after another
Spec == Init /\ [][HttpNext]_vars

\* one attempt of the loop of _send_request, whatever its result
Attempt ==
    \/ AttemptUnsupported
    \/ AttemptTransportError
    \/ \E resp \in Responses : AttemptResponse(resp)

\* the transport when every step of a call in progress is eventually taken:
\* session.post/delete returns or raises within the connection timeout,
\* should_retry answers, time.sleep returns, raise raises
SpecProgress ==
    /\ Init /\ [][HttpNext]_vars
    /\ WF_vars(Attempt) /\ WF_vars(Except) /\ WF_vars(Sleep) /\ WF_vars(Raise)

\* the configuration objects: client constructions and calls
SpecConfig == Init /\ [][CfgNext]_vars

\* the signer: sign calls, one after another
SpecSign == Init /\ [][SignNext]_vars

\* the search requests: one request is built and rendered
SpecSearch == Init /\ [][SearchNext]_vars

\* the pipeline: one vector_search, hybrid_search or ingest_doc call
SpecPipeline == Init /\ [][PipeNext]_vars

\* create_table, describe_table and describe_index
SpecTable == Init /\ [][TableNext]_vars


\* the requests of the Database and Table operations
SpecOps == Init /\ [][OpsNext]_vars


\* the request body across the attempts of one call
SpecBody == Init /\ [][FpNext]_vars


SpecClose == Init /\ [][CloseNext]_vars

SpecPoll == Init /\ [][PollNext]_vars /\ WF_vars(PollDescribeTable)

SpecHub == Init /\ [][HubNext]_vars

SpecSplit == Init /\ [][SplitNext]_vars

(***************************************************************************)
(* Properties of the transport.                                            *)
(***************************************************************************)
TrueDecisions == Cardinality({i \in DOMAIN decisions : decisions[i]})
LastDecisionFalse == decisions # <<>> /\ ~decisions[Len(decisions)]
LastDecisionTrue == decisions # <<>> /\ decisions[Len(decisions)]
Is2xx(status) == status \div 100 = 2
Is1xx(status) == status \div 100 = 1

\* C1: within one send_request call, every dispatch after the first follows a
\* should_retry answer of true on the previous attempt's error; after an answer
\* of false there is no further dispatch and no sleep, and the next step hands
\* the last attempt's error to the caller; so the dispatches number at most one
\* plus the true answers.
C1_RetryLoop ==
    /\ [](dispatches <= 1 + TrueDecisions)
    /\ [][(dispatches' > dispatches /\ dispatches >= 1)
            => (LastDecisionTrue /\ Len(decisions) = retries_attempted
                /\ e # None /\ e[1].born = Some(retries_attempted - 1))]_vars
    /\ [][LastDecisionFalse
            => (/\ dispatches' <= dispatches
                /\ sleeps' <= sleeps
                /\ pc = "raise" => (/\ pc' = "raised"
                                    /\ outcome' # None
                                    /\ outcome'[1].kind = "exception"
                                    /\ outcome'[1].exc.born = Some(Len(decisions) - 1)))]_vars

C1_Witness ==
    /\ pc = "raised"
    /\ dispatches >= 3
    /\ Len(decisions) = dispatches
    /\ LastDecisionFalse

C3_ClientErrorNeverRetried ==
    (e # None /\ e[1].type = "ClientError") => pc \in {"except", "raise", "raised"}

\* C4: send_request returns a response only when the final attempt's status
\* is 2xx; every other status produces an error (a 1xx status a ClientError),
\* and the body parser is never applied to a response that is not 2xx.
C4_OnlySuccessReturns ==
    /\ pc = "returned" =>
          /\ http_response # None /\ Is2xx(http_response[1].status_code)
          /\ outcome # None /\ outcome[1].kind = "response"
          /\ outcome[1].status_code = http_response[1].status_code
    /\ (http_response # None /\ ~Is2xx(http_response[1].status_code)) =>
          /\ pc \in {"except", "sleep", "raise", "raised", "loop"}
          /\ e # None /\ e[1].born = Some(dispatches - 1)
          /\ Is1xx(http_response[1].status_code) => e[1].type = "ClientError"
          /\ pc = "raised" => outcome[1].kind = "exception"
    /\ \A s \in parsed : Is2xx(s)

C4_Witness ==
    /\ pc = "returned"
    /\ retries_attempted >= 1
    /\ parsed = {200}
    /\ outcome[1].kind = "response"

\* C5: a response whose status is neither 2xx nor 1xx and whose body is empty
\* raises a ServerError whose message is the reason phrase, whose request_id
\* is the request id of the response metadata and whose status_code is the
\* HTTP status.
C5_EmptyBodyServerError ==
    (/\ pc = "except" /\ http_response # None
     /\ ~Is2xx(http_response[1].status_code) /\ ~Is1xx(http_response[1].status_code)
     /\ http_response[1].text.kind = "empty") =>
        /\ e[1].type = "ServerError"
        /\ e[1].message = <<http_response[1].reason>>
        /\ e[1].request_id = http_response[1].bce_request_id
        /\ e[1].status_code = Some(http_response[1].status_code)

\* C6: a response whose status is neither 2xx nor 1xx and whose body is a JSON
\* object {msg, code} raises a ServerError whose message is msg, whose
\* status_code is the HTTP status and whose code is the enumeration member
\* with value code, for every code value the server sends.
C6_JsonBodyServerError ==
    (/\ pc = "except" /\ http_response # None
     /\ ~Is2xx(http_response[1].status_code) /\ ~Is1xx(http_response[1].status_code)
     /\ http_response[1].text.kind = "json") =>
        /\ e[1].type = "ServerError"
        /\ e[1].message = <<http_response[1].text.msg[1]>>
        /\ e[1].status_code = Some(http_response[1].status_code)
        /\ e[1].code = http_response[1].text.code

\* C10: every dispatched request carries, as top-level headers with string
\* values, Authorization = 'Bearer account=<account>&api_key=<api_key>' and,
\* for AppBuilderCredentials, X-Appbuilder-Authorization = 'Bearer <token>'.
C10_SignedHeadersSent ==
    sent # None =>
        LET h == sent[1]
            c == config.credentials
        IN /\ AUTHORIZATION \in DOMAIN h
           /\ h[AUTHORIZATION].type \in {"bytes", "str"}
           /\ h[AUTHORIZATION].v = <<"Bearer account=", c.account, "&api_key=", c.api_key>>
           /\ c.class = "AppBuilderCredentials" =>
                 /\ APPBUILDER_AUTHORIZATION \in DOMAIN h
                 /\ h[APPBUILDER_AUTHORIZATION].type \in {"bytes", "str"}
                 /\ h[APPBUILDER_AUTHORIZATION].v = <<"Bearer ", c.appbuilder_token[1]>>

(***************************************************************************)
(* Properties of the configuration objects.                                *)
(***************************************************************************)
\* C7: the configuration used to send a call that was given a per-call config
\* built from the constructor arguments S has the per-call value on every
\* field in S and the handle's value on every field outside S.
C7_OverrideOnlyPassedFields ==
    (used # None /\ used[1].override # None) =>
        \A f \in Fields :
            heap[used[1].config][f] =
                IF f \in used[1].passed
                    THEN heap[used[1].override[1]][f]
                    ELSE heap[used[1].base][f]

\* C8: after C.merge_non_none_values(O) each field that is non-None in O
\* equals O's value, every other field of C is as before, no field of C that
\* was set is None, and O is unchanged.
C8_MergeNonNone ==
    [][pending # None =>
        LET c == pending[1].target
            o == pending[1].other[1]
        IN /\ \A f \in Fields :
                /\ heap[o][f] # None => heap'[c][f] = heap[o][f]
                /\ heap[o][f] = None => heap'[c][f] = heap[c][f]
                /\ heap[c][f] # None => heap'[c][f] # None
           /\ heap'[o] = heap[o]]_vars

C8_Witness ==
    /\ used # None /\ used[1].override # None
    /\ LET c == heap[used[1].config]
           o == heap[used[1].override[1]]
           b == heap[used[1].base]
       IN /\ \E f \in Fields : o[f] # None /\ b[f] # None /\ b[f] # o[f] /\ c[f] = o[f]
          /\ \E f \in Fields : o[f] = None /\ b[f] # None /\ c[f] = b[f]

\* the objects C9 speaks of, by the variable that holds them; an object held
\* before and after a step is the same object, since an allocation never takes
\* the place of a live one
ProtectedNow ==
    {DefaultRef} \cup RefsOf(client) \cup RefsOf(clientArg)
    \cup (IF pending = None THEN {} ELSE RefsOf(pending[1].other))
    \cup (IF used = None THEN {} ELSE RefsOf(used[1].override))

\* C9: no operation that receives a per-call config changes the client-level
\* configuration, DEFAULT_CONFIG or the caller's config objects: across every
\* step each of them keeps its field values.
C9_ConfigsNotMutated ==
    [][/\ heap'[DefaultRef] = DEFAULT_CONFIG
       /\ \A r \in ProtectedNow \cap ProtectedNow' : heap'[r] = heap[r]]_vars

C9_Witness ==
    /\ client # None /\ clientArg # None
    /\ used # None /\ used[1].override # None
    /\ used[1].level = "table"
    /\ heap[used[1].config] # heap[used[1].base]
    /\ heap[client[1]] # DEFAULT_CONFIG

(***************************************************************************)
(* Properties of the signer.                                               *)
(***************************************************************************)
SignCalls == {c[1] : c \in {signLast, signPrev} \ {None}}

\* C11: sign returns, for BceCredentials, exactly the one key Authorization
\* with value 'Bearer account=<account>&api_key=<api_key>' and, for
\* AppBuilderCredentials, exactly that key and X-Appbuilder-Authorization with
\* value 'Bearer <token>'; two calls with the same credentials return the same
\* value whatever their method, path, headers, params and timestamp.
C11_SignByCredentialVariant ==
    /\ \A c \in SignCalls :
          LET auth == <<"Bearer account=", c.credentials.account,
                        "&api_key=", c.credentials.api_key>>
          IN /\ c.credentials.class = "BceCredentials" =>
                   /\ DOMAIN c.ret = {AUTHORIZATION}
                   /\ c.ret[AUTHORIZATION].v = auth
             /\ c.credentials.class = "AppBuilderCredentials" =>
                   /\ DOMAIN c.ret = {AUTHORIZATION, APPBUILDER_AUTHORIZATION}
                   /\ c.ret[AUTHORIZATION].v = auth
                   /\ c.ret[APPBUILDER_AUTHORIZATION].v =
                          <<"Bearer ", c.credentials.appbuilder_token[1]>>
    /\ \A c1, c2 \in SignCalls : c1.credentials = c2.credentials => c1.ret = c2.ret

C11_Witness ==
    /\ signLast # None /\ signPrev # None
    /\ signLast[1].credentials = signPrev[1].credentials
    /\ signLast[1].credentials.class = "AppBuilderCredentials"
    /\ signLast[1].http_method # signPrev[1].http_method
    /\ signLast[1].path # signPrev[1].path
    /\ signLast[1].params # signPrev[1].params
    /\ signLast[1].timestamp # signPrev[1].timestamp
    /\ AUTHORIZATION \in DOMAIN signLast[1].headers
    /\ AUTHORIZATION \notin DOMAIN signPrev[1].headers

HybridRendered ==
    searchRequest # None /\ searchRequest[1].class = "HybridSearchRequest"

\* the keys named k inside the sub-object `sub` of the body: in the sub-object
\* itself and in its nested params
KeyInside(body, sub, k) ==
    /\ sub \in DOMAIN body
    /\ \/ k \in DOMAIN body[sub]
       \/ "params" \in DOMAIN body[sub] /\ k \in DOMAIN body[sub]["params"]

\* C13: the body rendered from a HybridSearchRequest with vector weight wv,
\* BM25 weight wb and top-level limit L has anns.weight = wv,
\* BM25SearchParams.weight = wb and limit = L at the top level, and no key
\* 'limit' inside the anns sub-object or the BM25SearchParams sub-object.
C13_HybridWeightsAndSingleLimit ==
    (HybridRendered /\ searchRequest[1].limit # None) =>
        LET r == searchRequest[1]
            body == searchBody[1]
        IN /\ body["anns"]["weight"] = r.vector_weight
           /\ body["BM25SearchParams"]["weight"] = r.bm25_weight
           /\ "limit" \in DOMAIN body /\ body["limit"] = r.limit[1]
           /\ ~KeyInside(body, "anns", "limit")
           /\ ~KeyInside(body, "BM25SearchParams", "limit")

\* C14: the body rendered from a HybridSearchRequest whose own limit and filter
\* are set carries that limit and that filter at the top level, and no limit
\* or filter of the vector request or of the BM25 request is left anywhere
\* in it.
C14_HybridOverridesBranches ==
    (HybridRendered /\ searchRequest[1].limit # None /\ searchRequest[1].filter # None) =>
        LET r == searchRequest[1]
            body == searchBody[1]
        IN /\ body["limit"] = r.limit[1]
           /\ body["filter"] = r.filter[1]
           /\ \A sub \in {"anns", "BM25SearchParams"}, k \in {"limit", "filter"} :
                 ~KeyInside(body, sub, k)

(***************************************************************************)
(* Properties of the pipeline.                                             *)
(***************************************************************************)
InSearch == pargs.op \in SearchOps

\* C15: in vector_search and hybrid_search, one search text with a Topk or
\* Range request reaches the table search; one text with a Batch request, or
\* several texts with a Topk or Range request, ends in a ClientError, raised
\* before any call on the embedder or the table.
C15_MismatchRaisesBeforeNetwork ==
    InSearch =>
        LET mismatch ==
                \/ pargs.contents = 1 /\ pargs.request_class = "VectorBatchSearchRequest"
                \/ pargs.contents > 1 /\ pargs.request_class # "VectorBatchSearchRequest"
        IN /\ (mismatch /\ pargs.contents >= 1) =>
                 /\ calls = <<>>
                 /\ ppc \in {"raised", "embed_text"}
                 /\ ppc = "raised" => pout[1].exc[1].type = "ClientError"
           /\ (ppc = "table_search" /\ pargs.contents = 1) =>
                 pargs.request_class \in {"VectorTopkSearchRequest",
                                          "VectorRangeSearchRequest"}

InIngest == pargs.op = "ingest_doc"

CallsOn(target) == SelectSeq(calls, LAMBDA c : c.target = target)

\* the rows of a sequence of insert calls, one after another
RECURSIVE RowsOf(_)
RowsOf(inserts) ==
    IF inserts = <<>> THEN <<>> ELSE Head(inserts).rows \o RowsOf(Tail(inserts))

CeilDiv(n, b) == (n + b - 1) \div b

\* C19: in an ingest_doc run over n chunks with batch size b, the first call is
\* the one meta_table.insert, with one row; the document is processed and the
\* chunk inserts are made only after it; every chunk insert carries between 1
\* and b rows; and when the run returns there were ceil(n/b) chunk inserts
\* whose rows, in call order, are the chunk rows in chunk order.
C19_IngestBatches ==
    InIngest =>
        LET metas == CallsOn("meta_table")
            chunks == CallsOn("chunk_table")
        IN /\ Len(metas) <= 1
           /\ calls # <<>> =>
                 /\ calls[1] = Head(metas)
                 /\ Len(calls[1].rows) = 1
           /\ \A i \in DOMAIN chunks :
                 Len(chunks[i].rows) >= 1 /\ Len(chunks[i].rows) <= pargs.batch_size
           /\ ppc = "returned" =>
                 /\ Len(metas) = 1
                 /\ Len(CallsOn("doc_processor")) = 1
                 /\ Len(chunks) = CeilDiv(pargs.chunks, pargs.batch_size)
                 /\ RowsOf(chunks) = ChunkRows(pargs.chunks)

C19_Witness ==
    /\ InIngest /\ ppc = "returned"
    /\ pargs.chunks = 4 /\ pargs.batch_size = 3
    /\ Len(CallsOn("chunk_table")) = 2
    /\ stored.chunk = <<1, 2, 3, 4>>

\* C20: when the k-th chunk insert of ingest_doc raises, that error is what
\* the caller gets, the failed insert is the last call ingest_doc makes (no
\* later batch, no delete), and the meta row and the rows of batches 1..k-1
\* stay inserted.
C20_NoRollback ==
    /\ []((InIngest /\ \E i \in DOMAIN calls :
                          calls[i].target = "chunk_table" /\ calls[i].raised) =>
            LET k == Len(CallsOn("chunk_table")) IN
            /\ calls[Len(calls)].target = "chunk_table" /\ calls[Len(calls)].raised
            /\ \A i \in 1..(Len(calls) - 1) : ~calls[i].raised
            /\ \A i \in DOMAIN calls : calls[i].op # "delete"
            /\ ppc = "raised"
            /\ pout = PipeRaised(UpstreamError)
            /\ stored.meta = <<DocRow>>
            /\ stored.chunk = RowsOf(SubSeq(CallsOn("chunk_table"), 1, k - 1))
            /\ Len(stored.chunk) = (k - 1) * pargs.batch_size)
    /\ [][ppc = "raised" => (calls' = calls /\ stored' = stored)]_vars

C20_Witness ==
    /\ InIngest /\ ppc = "raised" /\ calls # <<>>
    /\ calls[Len(calls)].target = "chunk_table" /\ calls[Len(calls)].raised
    /\ Len(CallsOn("chunk_table")) = 2
    /\ batch_start < Len(rows)
    /\ stored.chunk # <<>>

(***************************************************************************)
(* Properties of create_table, describe_table and describe_index.          *)
(***************************************************************************)
\* what the round trip compares of a field and of an index
FieldFacts(f) == <<f.field_name, f.field_type, f.primary_key, f.partition_key,
                   f.auto_increment, f.not_null, f.dimension>>
IndexFacts(x) == <<x.index_name, x.index_type, x.field, x.metric_type, x.params>>

\* C17: for every table create_table accepts, describe_table applied to the
\* server's echo of the create body (plus createTime, state, aliases)
\* returns a Table equal to the created one in replication, partition
\* number, every field's name, type, flags and dimension, every index's
\* name, type, field, metric and params, the dynamic-field flag and the
\* description.
C17_CreateDescribeRoundTrip ==
    described # None =>
        /\ described[1].exc = None
        /\ LET d == described[1].ret[1]
               c == created[1]
           IN /\ d.replication = c.replication
              /\ d.partition.partition_num = c.partition.partition_num
              /\ Len(d.schema.fields) = Len(c.schema.fields)
              /\ \A i \in DOMAIN c.schema.fields :
                    FieldFacts(d.schema.fields[i]) = FieldFacts(c.schema.fields[i])
              /\ Len(d.schema.indexes) = Len(c.schema.indexes)
              /\ \A i \in DOMAIN c.schema.indexes :
                    IndexFacts(d.schema.indexes[i]) = IndexFacts(c.schema.indexes[i])
              /\ d.enable_dynamic_field = c.enable_dynamic_field
              /\ d.description = c.description

\* the variant describe_index is to build for a tag
VectorTags == {"HNSW", "HNSWPQ", "PUCK", "FLAT"}
KnownTags == VectorTags \cup {"SECONDARY", INVERTED_INDEX}
VariantOf(tag) ==
    CASE tag \in VectorTags -> "VectorIndex"
      [] tag = "SECONDARY" -> "SecondaryIndex"
      [] tag = INVERTED_INDEX -> "InvertedIndex"

RequestSent == op_sent # None /\ op_sent[1].request # None

DropOperations == {"drop_database", "drop_table", "drop_index"}

C29_UpdateRequiresBoth ==
    op_called = Some("update") =>
        IF "primary_key" \in DOMAIN op_args /\ "update_fields" \in DOMAIN op_args
            THEN op_sent[1].request # None
            ELSE /\ op_sent[1].request = None
                 /\ op_sent[1].exc[1].type = "ValueError"

\* C22: with a retry policy whose should_retry answers false for every
\* attempt count at or above a cutoff K, every send_request call terminates
\* (returns a response or raises) after at most K+1 network dispatches,
\* whatever sequence of errors the attempts produce.
C22_TerminatesWithinCutoff ==
    /\ [](pc # "idle" => dispatches <= config.retry_policy.max_error_retry + 1)
    /\ (pc = "loop") ~> (pc \in {"returned", "raised"})

\* a call has raised after all K+1 dispatches of a policy with cutoff K >= 2
C22_Witness ==
    /\ pc = "raised"
    /\ config.retry_policy.max_error_retry >= 2
    /\ dispatches = config.retry_policy.max_error_retry + 1

\* C24: within one send_request call the i-th failed attempt (i = 0, 1, ...)
\* is reported to should_retry and to get_delay_before_next_retry_in_millis
\* with attempt count exactly i, each failure is reported exactly once, and
\* every new send_request call starts again at 0.  The failure bound to e was
\* born in attempt e.born; decisions holds one answer per report.
C24_AttemptCountPerFailure ==
    /\ [](pc = "except" =>
            /\ e[1].born = Some(retries_attempted)
            /\ Len(decisions) = retries_attempted)
    /\ [](pc \in {"sleep", "raise"} =>
            /\ e[1].born = Some(retries_attempted)
            /\ Len(decisions) = retries_attempted + 1)
    /\ [](pc = "loop" => Len(decisions) = retries_attempted)
    /\ [][pc = "except" => Len(decisions') = Len(decisions) + 1]_vars
    /\ [][pc = "sleep" => (retries_attempted' = retries_attempted + 1
                           /\ decisions' = decisions)]_vars
    /\ [][(pc = "idle" /\ pc' # "idle")
            => (retries_attempted' = 0 /\ decisions' = <<>>)]_vars

\* the third failure of a call is being reported with attempt count 2
C24_Witness ==
    /\ pc = "except"
    /\ retries_attempted = 2
    /\ Len(decisions) = 2
    /\ e[1].born = Some(2)

(***************************************************************************)
(* Properties of the request body.                                         *)
(***************************************************************************)
\* C25: for a request body that supports tell/seek, the body's position at
\* every dispatch after the first equals the position recorded before the
\* first dispatch, whatever part of the body earlier attempts consumed; so
\* every attempt reads the body from the same position.
C25_BodyRewound ==
    Seekable(fp) =>
        \A i \in DOMAIN read_from :
            /\ offset # None
            /\ read_from[i] = offset[1]
            /\ read_from[i] = read_from[1]

\* a file body, partly consumed by two failed attempts, is dispatched a
\* third time
C25_Witness ==
    /\ Seekable(fp)
    /\ Len(read_from) = 3
    /\ fp_retries = 2
    /\ offset = Some(1)
    /\ fp.position = BodyLen

\* the vectorFloats of a search request is a list of vectors, one per query
CarriesVectorList(request) ==
    \/ request.class = "VectorBatchSearchRequest"
    \/ /\ request.class = "HybridSearchRequest"
       /\ request.vector_request.class = "VectorBatchSearchRequest"

\* C27: a search request is sent with the batch-search discriminator exactly
\* when the vectorFloats it carries is a list of vectors (one per query), and
\* with the plain search discriminator exactly when it carries a single
\* vector or no vector; this includes hybrid requests built around a
\* VectorBatchSearchRequest.
C27_BatchDiscriminatorIffVectorList ==
    (RequestSent /\ op_called[1] \in {"vector_search", "bm25_search", "hybrid_search"}) =>
        LET r == op_sent[1].request[1]
            request == op_args["request"]
        IN /\ DOMAIN r.params \subseteq {Bytes(RequestType("SEARCH")),
                                        Bytes(RequestType("BATCH_SEARCH"))}
           /\ IF CarriesVectorList(request)
                 THEN r.body[1]["anns"]["vectorFloats"] = <<AVector, BVector>>
                 ELSE "anns" \in DOMAIN r.body[1] =>
                          r.body[1]["anns"]["vectorFloats"] = AVector
           /\ Bytes(RequestType("BATCH_SEARCH")) \in DOMAIN r.params
                 <=> CarriesVectorList(request)

\* C21: once MochowClient.close() has returned, every later operation on the
\* client, or on a Database or Table handle obtained from it before the
\* close, raises ClientError and puts no request on the network.
C21_ClosedClientRejectsEverything ==
    (last_call # None /\ last_call[1].after_close) =>
        /\ last_call[1].result.exc # None
        /\ last_call[1].result.exc[1].type = "ClientError"
        /\ ~OnTheNetwork(last_call[1].result)

\* C23: when the server reports CREATING for finitely many describe calls
\* and NORMAL afterwards, the loop that repeats describe_table until
\* table.state == TableState.NORMAL ends normally for every schema
\* create_table accepted; every describe_table call sends one request and
\* its Table is built from that response alone.
C23_PollingLoopEndsNormally ==
    /\ [](poll_pc # "raised")
    /\ [](poll_table # None => poll_table[1] = describe_table(Str("t1"), answer_in_state(server_table[1], IF poll_pc = "done" THEN "NORMAL" ELSE "CREATING")))
    /\ [][poll_table' # poll_table => poll_requests' = poll_requests + 1]_vars
    /\ (poll_pc = "loop") ~> (poll_pc = "done")

\* the node lies inside the hub's root directory
InsideHub(path) == Len(resolve(path)) > Len(resolve(hub[1]._root_path)) /\ SubSeq(resolve(path), 1, Len(resolve(hub[1]._root_path))) = resolve(hub[1]._root_path)

\* C26: after any sequence of add and remove calls, list() returns exactly
\* one document per doc_name added and not removed since; load of such a
\* name returns the document with its path inside the hub, load of any
\* other name returns None, and remove of an absent name changes nothing.
C26_HubHoldsWhatWasAdded ==
    [][/\ (hub_call' # hub_call /\ hub_call'[1].op = "list") =>
            /\ {d.doc_name[1] : d \in hub_call'[1].result.ret[1]} = added
            /\ Cardinality(hub_call'[1].result.ret[1]) = Cardinality(added)
       /\ (hub_call' # hub_call /\ hub_call'[1].op = "load") =>
            LET loaded == hub_call'[1].result.ret[1]
            IN IF hub_call'[1].doc_name[1] \in added
                  THEN loaded # None /\ loaded[1].doc_name = hub_call'[1].doc_name /\ InsideHub(loaded[1].file_path[1])
                  ELSE loaded = None
       /\ (hub_call' # hub_call /\ hub_call'[1].op = "remove" /\ hub_call'[1].doc_name[1] \notin added) =>
            filesystem' = filesystem]_vars

\* C28: remove deletes only the document's file and the ancestor
\* directories strictly below the hub's root that have become empty; the
\* root directory and the directories above it stay, with or without a
\* trailing slash in root_path.
C28_RemoveStaysBelowRoot ==
    [][(hub_call' # hub_call /\ hub_call'[1].op = "remove") =>
          LET target == resolve(join(hub[1]._root_path, hub_call'[1].doc_name[1]))
          IN /\ filesystem.files \ filesystem'.files \subseteq {target}
             /\ filesystem'.files \subseteq filesystem.files
             /\ filesystem'.dirs \subseteq filesystem.dirs
             /\ \A d \in filesystem.dirs \ filesystem'.dirs :
                    /\ InsideHub(d)
                    /\ d \in Ancestors(target)
                    /\ listdir(filesystem', d) = {}
             /\ Ancestors(resolve(hub[1]._root_path)) \subseteq filesystem'.dirs]_vars

\* the first k pieces as chunks numbered 1..k
FirstChunks(pieces, k) == [i \in 1..k |-> DocumentChunk("doc", i, pieces[i])]

Smaller(a, b) == IF a <= b THEN a ELSE b

\* C30: with maximum_pages_totake = m and a document of n pieces, split and
\* process_doc each return exactly the first min(n, m) pieces as chunks, in
\* order, numbered 1..min(n, m).
C30_TakesFirstPieces ==
    (split_input # None /\ split_input[1].self._maximum_pages_totake # None) =>
        LET pieces == split_input[1].pieces
            expected == FirstChunks(pieces, Smaller(Len(pieces), split_input[1].self._maximum_pages_totake[1]))
        IN /\ (split_output # None /\ split_output[1].exc = None) => split_output[1].ret[1] = expected
           /\ (process_output # None /\ process_output[1].exc = None) => process_output[1].ret[1] = expected

====
